---- MODULE Spec2Model ----
(***************************************************************************)
(* Verification model of the self-paced-learning platform.                 *)
(*                                                                         *)
(* The module holds several specifications, one per subsystem, over one    *)
(* set of variables.  A specification drives the variables of its own      *)
(* subsystem and leaves the others at their idle values:                   *)
(*                                                                         *)
(*   SpecCost     UserService.calculate_token_cost                         *)
(*   SpecTokens   UserService: accounts, classes, token balances           *)
(*   SpecSelect   AIService: remedial question selection                   *)
(*   SpecAnalyze  AIService.analyze_quiz_performance                       *)
(*   SpecResults  main_routes.show_results_page lesson matching            *)
(*   SpecQuiz     main_routes quiz / analyze / remedial request flow       *)
(*   SpecProgress ProgressService: completion, override, prerequisites     *)
(*                                                                         *)
(* Text (tags, identifiers, session keys) is modelled as a sequence of     *)
(* one-character strings so that strip(), lower(), startswith() and the    *)
(* regular-expression clean-ups are computed, not assumed.                 *)
(***************************************************************************)
EXTENDS Integers, Sequences, FiniteSets, TLC

VARIABLES
    \* --- SpecCost
    code_len,        \* len(code) of the submission handed to calculate_token_cost
    token_cost,      \* the value it returned (NoCost before the call)
    \* --- SpecTokens (the relational store: user, class, class_registration)
    users,           \* user id -> role ("student" / "teacher"), None when no such row
    token_balance,   \* user id -> User.token_balance
    classes,         \* class id -> Class.teacher_id, 0 when no such row
    registrations,   \* set of <<student_id, class_id>> rows of class_registration
    tok_call,        \* the last UserService call and what it returned
    tok_calls,       \* number of UserService calls made so far
    \* --- SpecSelect (AIService.select_remedial_questions)
    question_pool,   \* the question pool handed to the selection
    target_tags,     \* the target tags handed to the selection
    api_key,         \* TRUE when OPENAI_API_KEY is configured (is_available())
    llm_reply,       \* what the LLM call will produce: an error or an index list
    selected,        \* the list select_remedial_questions returned
    sel_done,        \* TRUE once select_remedial_questions has returned
    \* --- SpecAnalyze (AIService.analyze_quiz_performance)
    an_questions,    \* the quiz questions handed to the analysis
    an_answers,      \* the submitted answers, one text per answered question
    allowed_tags,    \* get_subject_allowed_tags(subject)
    ai_response,     \* what the LLM call will produce
    analysis,        \* the dictionary analyze_quiz_performance returned
    an_done,         \* TRUE once analyze_quiz_performance has returned
    \* --- SpecResults (main_routes.show_results_page)
    res_analysis,    \* the stored quiz analysis: weak_tags and weak_topics
    res_lessons,     \* get_lesson_plans(subject, subtopic, include_unlisted=False)
    lesson_plan_map, \* LESSON_PLANS: the (topic, lesson) items in insertion order
    res_done,        \* TRUE once the results page has been rendered
    \* --- SpecQuiz (one browser session: quiz, analysis, remedial quiz)
    session,         \* the Flask session cookie: key text -> value
    user_state,      \* the server-side bucket of the session: <<category, key>> -> value
    response,        \* the last request: route, status, current pair, returned list
    quiz_served,     \* history: the pairs whose initial quiz this session was served
    quiz_analysed,   \* history: pair -> outcome of the analysis since it was served
    quiz_requests,   \* number of requests made so far
    \* --- SpecProgress (several browser sessions, the progress table, the lesson files)
    sessions,        \* browser session -> its Flask session cookie: key text -> value
    lesson_progress, \* the rows of the lesson_progress table, in insertion order
    lesson_files,    \* <<subject, subtopic>> -> the lessons of its lesson_plans.json
    prog_call,       \* the last call: route, session, arguments, what it returned
    prog_calls,      \* number of calls made so far
    \* --- SpecScope (teacher subject assignments and the scoped authoring routes)
    topic_assignments, \* the assignment store: set of <<teacher_id, subject>>
    scope_session,     \* the Flask session cookie of the browser
    scope_reply,       \* the last request and its response
    scope_posted,      \* history: the pairs assigned by a POST and not deleted since
    scope_calls,       \* number of requests made so far
    \* --- SpecTagKey (normalize_tag_key applied to a tag and to its own result)
    tag_text,        \* the tag text given
    tag_keys         \* the successive results of normalize_tag_key, oldest first

costVars == <<code_len, token_cost>>

tokVars == <<users, token_balance, classes, registrations, tok_call, tok_calls>>

selVars == <<question_pool, target_tags, api_key, llm_reply, selected, sel_done>>

anVars == <<an_questions, an_answers, allowed_tags, ai_response, analysis, an_done>>

resVars == <<res_analysis, res_lessons, lesson_plan_map, res_done>>

quizVars == <<session, user_state, response, quiz_served, quiz_analysed, quiz_requests>>

progVars == <<sessions, lesson_progress, lesson_files, prog_call, prog_calls>>

scopeVars == <<topic_assignments, scope_session, scope_reply, scope_posted, scope_calls>>

keyVars == <<tag_text, tag_keys>>

vars == <<costVars, tokVars, selVars, anVars, resVars, quizVars, progVars, scopeVars, keyVars>>

\* A step of one subsystem leaves the variables of the others alone.
OnlyCost == UNCHANGED <<tokVars, selVars, anVars, resVars, quizVars, progVars, scopeVars, keyVars>>

OnlyTok == UNCHANGED <<costVars, selVars, anVars, resVars, quizVars, progVars, scopeVars, keyVars>>

OnlySel == UNCHANGED <<costVars, tokVars, anVars, resVars, quizVars, progVars, scopeVars, keyVars>>

OnlyAn == UNCHANGED <<costVars, tokVars, selVars, resVars, quizVars, progVars, scopeVars, keyVars>>

OnlyRes == UNCHANGED <<costVars, tokVars, selVars, anVars, quizVars, progVars, scopeVars, keyVars>>

OnlyQuiz == UNCHANGED <<costVars, tokVars, selVars, anVars, resVars, progVars, scopeVars, keyVars>>

OnlyProg == UNCHANGED <<costVars, tokVars, selVars, anVars, resVars, quizVars, scopeVars, keyVars>>

OnlyScope == UNCHANGED <<costVars, tokVars, selVars, anVars, resVars, quizVars, progVars, keyVars>>

OnlyKey == UNCHANGED <<costVars, tokVars, selVars, anVars, resVars, quizVars, progVars, scopeVars>>

(***************************************************************************)
(* Generic helpers                                                         *)
(***************************************************************************)
None == "None"

Max(a, b) == IF a >= b THEN a ELSE b

Min(a, b) == IF a <= b THEN a ELSE b

Range(s) == {s[i] : i \in DOMAIN s}

\* The subsequence of s whose elements satisfy Keep, in order (a list comprehension).
RECURSIVE SelectIdx(_, _)
SelectIdx(s, Keep) ==
    IF s = <<>> THEN <<>>
    ELSE LET rest == SelectIdx(Tail(s), Keep)
         IN IF Head(s) \in Keep THEN <<Head(s)>> \o rest ELSE rest

(***************************************************************************)
(* Text: a Python str is a sequence of one-character strings               *)
(***************************************************************************)
Uppers == <<"A", "B", "C", "D", "E", "F", "G", "H", "I", "J", "K", "L", "M", "N", "O", "P", "Q", "R", "S", "T", "U", "V", "W", "X", "Y", "Z">>

Lowers == <<"a", "b", "c", "d", "e", "f", "g", "h", "i", "j", "k", "l", "m", "n", "o", "p", "q", "r", "s", "t", "u", "v", "w", "x", "y", "z">>

Digits == <<"0", "1", "2", "3", "4", "5", "6", "7", "8", "9">>

\* [a-z0-9]
Alnum == {Lowers[i] : i \in DOMAIN Lowers} \cup {Digits[i] : i \in DOMAIN Digits}

IsSpace(c) == c \in {" ", "\t", "\n"}

\* The lower-case letter of each upper-case letter
LowerOf == [c \in {Uppers[i] : i \in DOMAIN Uppers} |->
               Lowers[CHOOSE i \in DOMAIN Uppers : Uppers[i] = c]]

LowerChar(c) == IF c \in DOMAIN LowerOf THEN LowerOf[c] ELSE c

\* str.lower()
RECURSIVE str_lower(_)
str_lower(s) == IF s = <<>> THEN <<>> ELSE <<LowerChar(Head(s))>> \o str_lower(Tail(s))

RECURSIVE LStrip(_)
LStrip(s) == IF s # <<>> /\ IsSpace(Head(s)) THEN LStrip(Tail(s)) ELSE s

RECURSIVE RStrip(_)
RStrip(s) ==
    IF s # <<>> /\ IsSpace(s[Len(s)]) THEN RStrip(SubSeq(s, 1, Len(s) - 1)) ELSE s

\* str.strip()
str_strip(s) == RStrip(LStrip(s))

\* tag.strip().lower(), the key most of the tag handling compares by
CleanKey(s) == str_lower(str_strip(s))

\* str.startswith(prefix)
startswith(s, prefix) ==
    Len(prefix) <= Len(s) /\ SubSeq(s, 1, Len(prefix)) = prefix

\* The decimal numeral of a natural number below 100
Numeral(n) ==
    IF n < 10 THEN <<Digits[n + 1]>>
    ELSE <<Digits[(n \div 10) + 1], Digits[(n % 10) + 1]>>

\* An absent (None or empty) text field of a question or lesson
NoText == <<>>

(***************************************************************************)
(* SpecCost: UserService.calculate_token_cost                              *)
(***************************************************************************)
MaxCodeLen == 650

NoCost == 0 - 1

TOKEN_CHARS_PER == 250

\* Mutant: Python's round() (round half to even) in place of floor(x + 0.5).
calculate_token_cost_round_even(length) ==
    IF length <= 0 THEN 0
    ELSE LET q == length \div TOKEN_CHARS_PER
             r == length % TOKEN_CHARS_PER
             rounded == IF 2 * r > TOKEN_CHARS_PER THEN q + 1
                        ELSE IF 2 * r < TOKEN_CHARS_PER THEN q
                        ELSE IF q % 2 = 0 THEN q ELSE q + 1
         IN Max(1, rounded)

\* length = len(code or "").  raw_tokens + 0.5 = (2*length + 250) / 500, and
\* every length whose quotient is k + 1/2 gives a float that is exact, so the
\* float floor equals the integer floor computed here.
calculate_token_cost(length) ==
    IF length <= 0 THEN 0
    ELSE LET rounded_tokens ==
                 (2 * length + TOKEN_CHARS_PER) \div (2 * TOKEN_CHARS_PER)
         IN Max(1, rounded_tokens)

CostInit ==
    /\ code_len \in 0..MaxCodeLen
    /\ token_cost = NoCost

CalculateTokenCost ==
    /\ OnlyCost
    /\ token_cost = NoCost
    /\ token_cost' = calculate_token_cost(code_len)
    /\ UNCHANGED code_len

NewSubmission ==
    /\ OnlyCost
    /\ token_cost # NoCost
    /\ \E n \in 0..MaxCodeLen : code_len' = n
    /\ token_cost' = NoCost

CostNext == CalculateTokenCost \/ NewSubmission

CostIdle == code_len = 0 /\ token_cost = NoCost

(***************************************************************************)
(* SpecTokens: UserService accounts, classes and token balances            *)
(***************************************************************************)
MaxUsers == 3

MaxDelta == 2

MaxCalls == 5

STUDENT_START_TOKENS == 10

UserIds == 1..MaxUsers

ClassIds == 1..MaxUsers

Deltas == (0 - MaxDelta)..MaxDelta

\* User.query.get(user_id): the row's id, 0 when there is no such row
get_user(user_id) == IF user_id \in UserIds /\ users[user_id] # None THEN user_id ELSE 0

\* The classes owned by a teacher: Class.query.filter_by(teacher_id=...)
ClassesOf(teacher_id) == {c \in ClassIds : classes[c] = teacher_id}

\* User JOIN class_registration JOIN class WHERE class.teacher_id = teacher_id
\* AND user.role = 'student'
get_teacher_students(teacher_id) ==
    {u \in UserIds :
        /\ users[u] = "student"
        /\ \E c \in ClassesOf(teacher_id) : <<u, c>> \in registrations}

\* Mutant: the ownership test dropped (any existing user passes).
can_teacher_manage_student_any(teacher_id, student_id) ==
    student_id \in UserIds /\ users[student_id] # None

can_teacher_manage_student(teacher_id, student_id) ==
    IF teacher_id = student_id THEN FALSE
    ELSE student_id \in get_teacher_students(teacher_id)

\* Mutant: the balance is not clamped at zero.
AdjustedBalance_unclamped(user_id, delta) == token_balance[user_id] + delta

\* The balance adjust_token_balance writes: max(0, current + delta)
AdjustedBalance(user_id, delta) == Max(0, token_balance[user_id] + delta)

\* The balance a role starts with (register_user)
StartBalance(role) == IF role = "student" THEN STUDENT_START_TOKENS ELSE 0

TokInit ==
    /\ users = [u \in UserIds |-> None]
    /\ token_balance = [u \in UserIds |-> 0]
    /\ classes = [c \in ClassIds |-> 0]
    /\ registrations = {}
    /\ tok_call = [op |-> "none"]
    /\ tok_calls = 0

\* One UserService call; the exploration stops after MaxCalls calls.
TokStep ==
    /\ OnlyTok
    /\ tok_calls < MaxCalls
    /\ tok_calls' = tok_calls + 1

\* register_user: a new row with the next free id; students start with 10
\* tokens and teachers with 0.  Any other role is refused.
RegisterUser(role) ==
    /\ TokStep
    /\ \E u \in UserIds : users[u] = None
    /\ LET id == CHOOSE u \in UserIds :
                    users[u] = None /\ \A v \in UserIds : users[v] = None => u <= v
       IN IF role \notin {"student", "teacher"}
          THEN /\ tok_call' = [op |-> "register_user", success |-> FALSE]
               /\ UNCHANGED <<users, token_balance>>
          ELSE /\ users' = [users EXCEPT ![id] = role]
               /\ token_balance' =
                      [token_balance EXCEPT ![id] = StartBalance(role)]
               /\ tok_call' = [op |-> "register_user", success |-> TRUE]
    /\ UNCHANGED <<classes, registrations>>

\* add_student_via_code: the teacher is found by code; a teacher without a class
\* gets a default class; the caller is registered in every class of the teacher
\* (the unique constraint keeps one row per pair).
AddStudentViaCode(student_id, teacher_id) ==
    /\ TokStep
    /\ users[student_id] # None
    /\ IF users[teacher_id] # "teacher"
       THEN /\ tok_call' = [op |-> "add_student_via_code", success |-> FALSE]
            /\ UNCHANGED <<classes, registrations>>
       ELSE LET withDefault ==
                    IF ClassesOf(teacher_id) # {} THEN classes
                    ELSE LET c == CHOOSE c \in ClassIds :
                                      classes[c] = 0
                                      /\ \A d \in ClassIds : classes[d] = 0 => c <= d
                         IN [classes EXCEPT ![c] = teacher_id]
                owned == {c \in ClassIds : withDefault[c] = teacher_id}
            IN /\ classes' = withDefault
               /\ registrations' = registrations \cup {<<student_id, c>> : c \in owned}
               /\ tok_call' = [op |-> "add_student_via_code", success |-> TRUE]
    /\ UNCHANGED <<users, token_balance>>

\* remove_student_from_teacher: delete the student's rows in the teacher's classes
RemoveStudentFromTeacher(teacher_id, student_id) ==
    /\ TokStep
    /\ \E c \in ClassesOf(teacher_id) : <<student_id, c>> \in registrations
    /\ registrations' =
           registrations \ {<<student_id, c>> : c \in ClassesOf(teacher_id)}
    /\ tok_call' = [op |-> "remove_student_from_teacher", success |-> TRUE]
    /\ UNCHANGED <<users, token_balance, classes>>

\* adjust_token_balance(user_id, delta)
AdjustTokenBalance(user_id, delta) ==
    /\ TokStep
    /\ IF get_user(user_id) = 0
       THEN /\ tok_call' = [op |-> "adjust_token_balance", success |-> FALSE]
            /\ UNCHANGED token_balance
       ELSE /\ token_balance' =
                   [token_balance EXCEPT ![user_id] = AdjustedBalance(user_id, delta)]
            /\ tok_call' = [op |-> "adjust_token_balance", user_id |-> user_id,
                            delta |-> delta, success |-> TRUE]
    /\ UNCHANGED <<users, classes, registrations>>

\* spend_tokens(user_id, tokens)
SpendTokens(user_id, tokens) ==
    /\ TokStep
    /\ IF tokens <= 0 \/ get_user(user_id) = 0 \/ token_balance[user_id] < tokens
       THEN /\ tok_call' = [op |-> "spend_tokens", success |-> FALSE]
            /\ UNCHANGED token_balance
       ELSE /\ token_balance' =
                   [token_balance EXCEPT ![user_id] = token_balance[user_id] - tokens]
            /\ tok_call' = [op |-> "spend_tokens", success |-> TRUE]
    /\ UNCHANGED <<users, classes, registrations>>

\* adjust_student_tokens(teacher_id, student_id, delta): refused unless
\* can_teacher_manage_student, else adjust_token_balance(student_id, delta)
AdjustStudentTokens(teacher_id, student_id, delta) ==
    /\ TokStep
    /\ IF ~can_teacher_manage_student(teacher_id, student_id)
       THEN /\ tok_call' = [op |-> "adjust_student_tokens", teacher_id |-> teacher_id,
                            student_id |-> student_id, success |-> FALSE]
            /\ UNCHANGED token_balance
       ELSE /\ token_balance' =
                   [token_balance EXCEPT
                       ![student_id] = AdjustedBalance(student_id, delta)]
            /\ tok_call' = [op |-> "adjust_student_tokens", teacher_id |-> teacher_id,
                            student_id |-> student_id, success |-> TRUE]
    /\ UNCHANGED <<users, classes, registrations>>

TokNext ==
    \/ \E role \in {"student", "teacher", "admin"} : RegisterUser(role)
    \/ \E s \in UserIds, t \in UserIds : AddStudentViaCode(s, t)
    \/ \E t \in UserIds, s \in UserIds : RemoveStudentFromTeacher(t, s)
    \/ \E u \in UserIds, d \in Deltas : AdjustTokenBalance(u, d)
    \/ \E u \in UserIds, d \in Deltas : SpendTokens(u, d)
    \/ \E t \in UserIds, s \in UserIds, d \in Deltas : AdjustStudentTokens(t, s, d)

TokIdle ==
    /\ tok_calls = 0
    /\ users = <<>>
    /\ token_balance = <<>>
    /\ classes = <<>>
    /\ registrations = {}
    /\ tok_call = [op |-> "none"]

(***************************************************************************)
(* AIService: remedial question selection                                  *)
(*                                                                         *)
(* A question is a record [id, question, tags]: id and question are texts  *)
(* (NoText when the key is absent) and tags is the list under "tags".      *)
(* The LLM reply is [kind |-> "error"] when the call, the JSON parse or the *)
(* index handling raises, else [kind |-> "indices", indices |-> <<...>>].  *)
(* The random module is a source rnd = [rot, rev, pick] handed to the      *)
(* operators: shuffle permutes by rotation and reversal, randint(a, b) is  *)
(* a + pick % (b - a + 1).                                                 *)
(***************************************************************************)
MIN_QUESTIONS == 7

MAX_QUESTIONS == 10

\* seq[:k] for k >= 0
Take(seq, k) == SubSeq(seq, 1, Min(Max(k, 0), Len(seq)))

Rotate(seq, r) ==
    IF seq = <<>> THEN seq
    ELSE LET k == r % Len(seq)
         IN SubSeq(seq, k + 1, Len(seq)) \o SubSeq(seq, 1, k)

Reverse(seq) == [i \in 1..Len(seq) |-> seq[Len(seq) + 1 - i]]

\* random.shuffle(seq) under the random source rnd
random_shuffle(seq, rnd) ==
    IF rnd.rev THEN Reverse(Rotate(seq, rnd.rot)) ELSE Rotate(seq, rnd.rot)

\* random.randint(lo, hi) under the random source rnd
random_randint(lo, hi, rnd) == lo + (rnd.pick % (hi - lo + 1))

\* The elements of seq at the positions in Keep, in order
RECURSIVE AtPositions(_, _, _)
AtPositions(seq, Keep, i) ==
    IF i > Len(seq) THEN <<>>
    ELSE IF i \in Keep THEN <<seq[i]>> \o AtPositions(seq, Keep, i + 1)
    ELSE AtPositions(seq, Keep, i + 1)

\* is_available(): the API key is configured
is_available(key) == key

\* question.get("id") or question.get("question")
Identifier(q) == IF q.id # NoText THEN q.id ELSE q.question

\* str(identifier).strip().lower()
IdentifierKey(q) == CleanKey(Identifier(q))

\* The cleaned, non-empty tags of a question (or of a target list), as a set
CleanTagSet(tags) == {CleanKey(tags[i]) : i \in DOMAIN tags} \ {NoText}

\* _ai_select_questions: the questions at the in-range indices, in the order
\* and multiplicity the LLM gave them, topped up with shuffled questions
\* whose index the LLM did not name, cut to max_questions; [] on any error.
ai_select_questions(questions, reply, min_questions, max_questions, rnd) ==
    IF reply.kind = "error" THEN <<>>
    ELSE LET selected_indices == reply.indices
             n == Len(questions)
             inRange == AtPositions(selected_indices,
                                    {k \in DOMAIN selected_indices :
                                        0 <= selected_indices[k] /\ selected_indices[k] < n},
                                    1)
             selected_questions == [k \in DOMAIN inRange |-> questions[inRange[k] + 1]]
             remaining == AtPositions(questions,
                                      {i \in DOMAIN questions :
                                          (i - 1) \notin Range(selected_indices)},
                                      1)
             filled ==
                 IF Len(selected_questions) < min_questions
                 THEN selected_questions \o
                      Take(random_shuffle(remaining, rnd),
                           min_questions - Len(selected_questions))
                 ELSE selected_questions
         IN Take(filled, max_questions)

\* The positions of the first question of each identifier key (seen_identifiers)
FirstOfKey(questions) ==
    {i \in DOMAIN questions :
        \A j \in 1..(i - 1) : IdentifierKey(questions[j]) # IdentifierKey(questions[i])}

\* Mutant: the slice takes lower_bound - 1 questions (an off-by-one).
tag_based_selection_short(questions, targets, min_questions, max_questions, rnd) ==
    LET upper_bound == Min(max_questions, Len(questions))
        lower_bound == Min(min_questions, upper_bound)
    IN Take(questions, lower_bound - 1)

\* _tag_based_selection: questions de-duplicated by identifier key, those
\* sharing a target tag first (each group shuffled), cut to a count drawn
\* from [min(min_questions, upper), upper] with upper = min(max_questions, n).
tag_based_selection(questions, targets, min_questions, max_questions, rnd) ==
    LET normalized_targets == CleanTagSet(targets)
        first == FirstOfKey(questions)
        matched(i) == CleanTagSet(questions[i].tags) \cap normalized_targets # {}
        prioritized == AtPositions(questions, {i \in first : matched(i)}, 1)
        fallback == AtPositions(questions, {i \in first : ~matched(i)}, 1)
        ordered_questions ==
            random_shuffle(prioritized, rnd) \o random_shuffle(fallback, rnd)
        total_available == Len(ordered_questions)
        upper_bound == Min(max_questions, total_available)
        lower_bound == IF upper_bound # 0 THEN Min(min_questions, upper_bound) ELSE 0
        target_count ==
            IF lower_bound = upper_bound THEN upper_bound
            ELSE random_randint(lower_bound, upper_bound, rnd)
    IN IF ordered_questions = <<>> THEN <<>>
       ELSE IF lower_bound = 0 THEN ordered_questions
       ELSE Take(ordered_questions, target_count)

\* select_remedial_questions with the default min_questions and max_questions
select_remedial_questions(pool, targets, key, reply, rnd) ==
    IF pool = <<>> THEN <<>>
    ELSE IF targets = <<>> THEN <<>>
    ELSE IF ~is_available(key)
    THEN tag_based_selection(pool, targets, MIN_QUESTIONS, MAX_QUESTIONS, rnd)
    ELSE LET ai == ai_select_questions(pool, reply, MIN_QUESTIONS, MAX_QUESTIONS, rnd)
         IN IF ai # <<>> THEN ai
            ELSE tag_based_selection(pool, targets, MIN_QUESTIONS, MAX_QUESTIONS, rnd)

(***************************************************************************)
(* SpecSelect: select_remedial_questions on bounded inputs                 *)
(***************************************************************************)
MaxPool == 11

MaxIndices == 11

MaxRot == 1

T_loops == <<"l", "o", "o", "p", "s">>

T_Loops_padded == <<" ", "L", "o", "o", "p", "s", " ">>

T_if == <<"i", "f">>

T_else == <<"e", "l", "s", "e">>

T_blank == <<" ">>

\* The tag lists pool questions carry
KindTags(kind) ==
    CASE kind = "loops" -> <<T_loops>>
      [] kind = "Loops" -> <<T_Loops_padded, T_blank>>
      [] kind = "if" -> <<T_if>>
      [] kind = "both" -> <<T_if, T_loops>>
      [] OTHER -> <<>>

\* How the kinds repeat along a pool
Patterns ==
    << <<"loops">>, <<"if">>, <<"loops", "if">>, <<"if", "if", "Loops">>,
       <<"untagged", "both">> >>

\* Pool question number i: every third question has no "id" key, so that its
\* identifier is its question text.  With distinct_ids = FALSE the ids repeat
\* with period 3 and alternate in case.
PoolQuestion(i, kind, distinct_ids) ==
    LET k == IF distinct_ids THEN i ELSE ((i - 1) % 3) + 1
        prefix == IF distinct_ids \/ i % 2 = 1 THEN <<"q">> ELSE <<"Q">>
    IN [id |-> IF k % 3 = 0 THEN NoText ELSE prefix \o Numeral(k),
        question |-> <<"W", "h", "a", "t", " ">> \o Numeral(k) \o <<"?">>,
        tags |-> KindTags(kind)]

BuildPool(n, pattern, distinct_ids) ==
    [i \in 1..n |-> PoolQuestion(i, pattern[((i - 1) % Len(pattern)) + 1], distinct_ids)]

Pools ==
    {BuildPool(n, Patterns[p], d) : n \in 0..MaxPool, p \in DOMAIN Patterns, d \in BOOLEAN}

TargetLists == {<<>>, <<T_loops>>, <<T_Loops_padded, T_if>>, <<T_else>>}

\* Index lists an LLM may return: a run lo, lo+1, ... of cnt indices, each
\* once or twice; runs start below, at and above the start of the pool.
IndexRun(lo, cnt, twice) ==
    [k \in 1..(IF twice THEN 2 * cnt ELSE cnt) |->
        lo + (IF twice THEN (k - 1) \div 2 ELSE k - 1)]

LlmReplies ==
    {[kind |-> "error"]} \cup
    {[kind |-> "indices", indices |-> IndexRun(lo, cnt, twice)] :
        lo \in {0 - 1, 0, 4}, cnt \in 0..MaxIndices, twice \in BOOLEAN}

RandomSource ==
    [rot : 0..MaxRot, rev : BOOLEAN, pick : 0..(MAX_QUESTIONS - MIN_QUESTIONS)]

SelInit ==
    /\ question_pool \in Pools
    /\ target_tags \in TargetLists
    /\ api_key \in BOOLEAN
    /\ llm_reply \in (IF api_key THEN LlmReplies ELSE {[kind |-> "error"]})
    /\ selected = <<>>
    /\ sel_done = FALSE

SelectRemedialQuestions ==
    /\ OnlySel
    /\ ~sel_done
    /\ \E rnd \in RandomSource :
           selected' = select_remedial_questions(question_pool, target_tags, api_key,
                                                 llm_reply, rnd)
    /\ sel_done' = TRUE
    /\ UNCHANGED <<question_pool, target_tags, api_key, llm_reply>>

SelNext == SelectRemedialQuestions

SelIdle ==
    /\ question_pool = <<>>
    /\ target_tags = <<>>
    /\ api_key = FALSE
    /\ llm_reply = [kind |-> "error"]
    /\ selected = <<>>
    /\ sel_done = FALSE

(***************************************************************************)
(* AIService: quiz analysis                                                *)
(*                                                                         *)
(* A quiz question is [type, correct_answer, tags], type being the         *)
(* stripped lower-cased question type; the LLM outcome is                  *)
(* [kind |-> "unavailable"] (no API key, or every API call failed, so      *)
(* ai_response is None), [kind |-> "unparsable"] (text holding no JSON     *)
(* object) or [kind |-> "parsed", weak_concept_tags |-> <<...>>].          *)
(***************************************************************************)
\* _normalize_tags: stripped non-empty tags, first spelling of each lower-cased key
RECURSIVE normalize_tags_from(_, _)
normalize_tags_from(tags, seen) ==
    IF tags = <<>> THEN <<>>
    ELSE LET cleaned == str_strip(Head(tags))
             key == str_lower(cleaned)
         IN IF cleaned = NoText \/ key \in seen
            THEN normalize_tags_from(Tail(tags), seen)
            ELSE <<cleaned>> \o normalize_tags_from(Tail(tags), seen \cup {key})

normalize_tags(tags) == normalize_tags_from(tags, {})

\* allowed_lookup = {str(tag).lower(): str(tag) for tag in allowed_tags}: its keys
AllowedKeys(allowed) == {str_lower(allowed[i]) : i \in DOMAIN allowed}

\* allowed_lookup[key]: the last allowed tag with that lower-cased spelling
AllowedLookup(allowed, key) ==
    LET at == {i \in DOMAIN allowed : str_lower(allowed[i]) = key}
    IN allowed[CHOOSE i \in at : \A j \in at : j <= i]

RECURSIVE filter_allowed_from(_, _, _)
filter_allowed_from(tags, allowed, seen) ==
    IF tags = <<>> THEN <<>>
    ELSE LET cleaned == str_strip(Head(tags))
             key == str_lower(cleaned)
         IN IF cleaned = NoText \/ key \notin AllowedKeys(allowed) \/ key \in seen
            THEN filter_allowed_from(Tail(tags), allowed, seen)
            ELSE <<AllowedLookup(allowed, key)>> \o
                 filter_allowed_from(Tail(tags), allowed, seen \cup {key})

\* _filter_allowed_tags
filter_allowed_tags(tags, allowed) ==
    IF tags = <<>> THEN <<>>
    ELSE IF allowed = <<>> THEN normalize_tags(tags)
    ELSE filter_allowed_from(tags, allowed, {})

\* _resolve_correct_answer for a question without options
resolve_correct_answer(question) ==
    IF question.type = "coding" THEN NoText ELSE question.correct_answer

\* _is_answer_correct
is_answer_correct(question, user_answer) ==
    LET answer_text == resolve_correct_answer(question)
        user_clean == str_strip(user_answer)
    IN IF user_clean = NoText THEN FALSE
       ELSE IF question.type = "multiple_choice" THEN user_clean = str_strip(answer_text)
       ELSE IF question.type = "coding" THEN FALSE
       ELSE str_lower(user_clean) = str_lower(str_strip(answer_text))

\* _collect_question_tags
collect_question_tags(question) == question.tags

\* normalized_answers[idx] if idx < len(normalized_answers) else ""
AnswerAt(answers, i) == IF i <= Len(answers) THEN answers[i] ELSE NoText

\* The 1-based positions of the questions marked Incorrect
WrongPositions(questions, answers) ==
    {i \in DOMAIN questions :
        /\ questions[i].type # "coding"
        /\ ~is_answer_correct(questions[i], AnswerAt(answers, i))}

RECURSIVE TagsOfWrong(_, _, _)
TagsOfWrong(questions, Wrong, i) ==
    IF i > Len(questions) THEN <<>>
    ELSE (IF i \in Wrong THEN collect_question_tags(questions[i]) ELSE <<>>)
         \o TagsOfWrong(questions, Wrong, i + 1)

\* fallback_tags: the wrong questions' tags filtered by the allowed list, or,
\* when none survives, the unfiltered normalized_missed_tags
analysis_fallback_tags(wrong_tag_candidates, allowed) ==
    LET filtered == filter_allowed_tags(wrong_tag_candidates, allowed)
    IN IF filtered # <<>> THEN filtered ELSE normalize_tags(wrong_tag_candidates)

\* analyze_quiz_performance; weak_topics and weak_areas are set to the same
\* list as weak_tags on every path.
analyze_quiz_performance(questions, answers, allowed, ai) ==
    LET Wrong == WrongPositions(questions, answers)
        wrong_tag_candidates == TagsOfWrong(questions, Wrong, 1)
        fallback_tags == analysis_fallback_tags(wrong_tag_candidates, allowed)
        validated_tags ==
            LET v == filter_allowed_tags(ai.weak_concept_tags, allowed)
            IN IF v # <<>> THEN v ELSE fallback_tags
        parsed == ai.kind = "parsed"
    IN [weak_tags |-> IF parsed THEN validated_tags ELSE fallback_tags,
        wrong_question_indices |-> [k \in 1..Cardinality(Wrong) |->
            (CHOOSE i \in Wrong : Cardinality({j \in Wrong : j < i}) = k - 1) - 1],
        missed_tags |-> normalize_tags(wrong_tag_candidates),
        correct |-> Cardinality({i \in DOMAIN questions :
                        /\ questions[i].type # "coding"
                        /\ i \notin Wrong}),
        used_ai |-> parsed]

(***************************************************************************)
(* SpecAnalyze: analyze_quiz_performance on bounded inputs                 *)
(***************************************************************************)
MaxQuiz == 2

T_Recursion_padded == <<" ", "R", "e", "c", "u", "r", "s", "i", "o", "n">>

T_LOOPS == <<"L", "O", "O", "P", "S">>

T_pointers == <<"p", "o", "i", "n", "t", "e", "r", "s">>

T_a == <<"a">>

T_A_padded == <<" ", "A">>

T_b == <<"b">>

QuizQuestions ==
    [type : {"multiple_choice", "coding", "short_answer"},
     correct_answer : {T_a},
     tags : {<<>>, <<T_loops>>, <<T_Recursion_padded, T_if>>}]

SubmittedAnswers == {NoText, T_a, T_A_padded, T_b}

AllowedTagLists == {<<>>, <<T_loops>>, <<T_LOOPS, T_if>>}

AiResponses ==
    {[kind |-> "unavailable", weak_concept_tags |-> <<>>],
     [kind |-> "unparsable", weak_concept_tags |-> <<>>]} \cup
    {[kind |-> "parsed", weak_concept_tags |-> t] :
        t \in {<<>>, <<T_loops>>, <<T_LOOPS, T_pointers>>, <<T_pointers>>}}

NoAnalysis ==
    [weak_tags |-> <<>>, wrong_question_indices |-> <<>>, missed_tags |-> <<>>,
     correct |-> 0, used_ai |-> FALSE]

AnInit ==
    /\ \E n \in 0..MaxQuiz :
         /\ an_questions \in [1..n -> QuizQuestions]
         /\ \E m \in 0..n : an_answers \in [1..m -> SubmittedAnswers]
    /\ allowed_tags \in AllowedTagLists
    /\ ai_response \in AiResponses
    /\ analysis = NoAnalysis
    /\ an_done = FALSE

AnalyzeQuizPerformance ==
    /\ OnlyAn
    /\ ~an_done
    /\ analysis' = analyze_quiz_performance(an_questions, an_answers, allowed_tags,
                                            ai_response)
    /\ an_done' = TRUE
    /\ UNCHANGED <<an_questions, an_answers, allowed_tags, ai_response>>

AnNext == AnalyzeQuizPerformance

AnIdle ==
    /\ an_questions = <<>>
    /\ an_answers = <<>>
    /\ allowed_tags = <<>>
    /\ ai_response = [kind |-> "unavailable", weak_concept_tags |-> <<>>]
    /\ analysis = NoAnalysis
    /\ an_done = FALSE

(***************************************************************************)
(* main_routes: tag keys and the results page                              *)
(***************************************************************************)
\* str.replace(old, new): every non-overlapping occurrence, left to right
RECURSIVE str_replace(_, _, _)
str_replace(s, old, new) ==
    IF Len(s) < Len(old) THEN s
    ELSE IF startswith(s, old)
    THEN new \o str_replace(SubSeq(s, Len(old) + 1, Len(s)), old, new)
    ELSE <<Head(s)>> \o str_replace(Tail(s), old, new)

T_comparsion == <<"c", "o", "m", "p", "a", "r", "s", "i", "o", "n">>

T_comparison == <<"c", "o", "m", "p", "a", "r", "i", "s", "o", "n">>

\* re.sub(r"[^a-z0-9]+", "", s): only the lower-case letters and digits of s
RECURSIVE KeepAlnum(_)
KeepAlnum(s) ==
    IF s = <<>> THEN <<>>
    ELSE IF Head(s) \in Alnum THEN <<Head(s)>> \o KeepAlnum(Tail(s))
    ELSE KeepAlnum(Tail(s))

\* normalize_tag_key: strip, lower, the spelling repair, then only [a-z0-9] kept
normalize_tag_key(tag) ==
    KeepAlnum(str_replace(str_lower(str_strip(tag)), T_comparsion, T_comparison))

\* re.split on the characters Seps; a run of separators yields empty parts
\* where re.split(r"[..]+") yields none, and empty parts give no key.
RECURSIVE SplitOn(_, _, _)
SplitOn(s, Seps, part) ==
    IF s = <<>> THEN <<part>>
    ELSE IF Head(s) \in Seps THEN <<part>> \o SplitOn(Tail(s), Seps, <<>>)
    ELSE SplitOn(Tail(s), Seps, Append(part, Head(s)))

\* str.find(c) + 1: the first position of c in s, 0 when absent
Find(s, c) ==
    IF c \in Range(s) THEN CHOOSE i \in DOMAIN s : s[i] = c /\ \A j \in 1..(i - 1) : s[j] # c
    ELSE 0

\* The base and the inner text of a part that holds "(" and ")"
ParenParts(part) ==
    IF "(" \in Range(part) /\ ")" \in Range(part)
    THEN {str_strip(SubSeq(part, 1, Find(part, "(") - 1)),
          str_strip(SubSeq(part, Find(part, "(") + 1, Find(part, ")") - 1))}
    ELSE {}

\* expand_tag_keys
expand_tag_keys(text) ==
    LET parts ==
            IF Range(text) \cap {",", ";", "/", "|", "+"} # {}
            THEN Range(SplitOn(text, {",", ";", "/", "|", "+"}, <<>>))
            ELSE IF " " \in Range(text) /\ "_" \in Range(text)
            THEN Range(SplitOn(text, {" "}, <<>>))
            ELSE {text}
        expanded_parts == UNION {ParenParts(p) : p \in parts}
    IN {normalize_tag_key(p) : p \in {text} \cup parts \cup expanded_parts} \ {NoText}

T_remedial == <<"r", "e", "m", "e", "d", "i", "a", "l">>

\* lesson_list.sort(key=order): insertion sort on the order field (the id
\* tie-break is never needed: the lessons drawn have pairwise distinct orders)
RECURSIVE SortByOrder(_)
SortByOrder(lessons) ==
    IF lessons = <<>> THEN <<>>
    ELSE LET first == CHOOSE i \in DOMAIN lessons :
                          \A j \in DOMAIN lessons : lessons[i].order <= lessons[j].order
         IN <<lessons[first]>> \o
            SortByOrder(AtPositions(lessons, DOMAIN lessons \ {first}, 1))

\* "Ensure unique order-preserved topics": stripped topics, first of each
\* lower-cased spelling; empty topics are skipped before stripping
RECURSIVE UniqueTopics(_, _)
UniqueTopics(topics, seen_topics) ==
    IF topics = <<>> THEN <<>>
    ELSE LET normalized == str_strip(Head(topics))
             key == str_lower(normalized)
         IN IF Head(topics) = NoText \/ key \in seen_topics
            THEN UniqueTopics(Tail(topics), seen_topics)
            ELSE <<normalized>> \o UniqueTopics(Tail(topics), seen_topics \cup {key})

\* The union of expand_tag_keys over a lesson's tags
LessonTagKeys(lesson) == UNION {expand_tag_keys(lesson.tags[i]) : i \in DOMAIN lesson.tags}

\* The position of the first remedial lesson sharing a key with the topic, 0 if none
MatchOf(topic, remedial_lessons) ==
    LET hits == {i \in DOMAIN remedial_lessons :
                    expand_tag_keys(topic) \cap LessonTagKeys(remedial_lessons[i]) # {}}
    IN IF hits = {} THEN 0 ELSE CHOOSE i \in hits : \A j \in hits : i <= j

\* lesson_key without its constant "subject:subtopic:" prefix: the lesson's
\* id, or its title when the id is empty, stripped and lower-cased
lesson_key(lesson) ==
    str_lower(str_strip(IF lesson.id # NoText THEN lesson.id ELSE lesson.title))

\* Mutant: a lesson is never recognised as already shown.
AlreadyShown_never(key, seen_lessons) == FALSE

\* lesson_key in seen_lessons
AlreadyShown(key, seen_lessons) == key \in seen_lessons

\* lesson_plan_map[topic] = lesson on an insertion-ordered dict
DictSet(map, topic, lesson) ==
    IF \E i \in DOMAIN map : map[i].topic = topic
    THEN [i \in DOMAIN map |->
             IF map[i].topic = topic THEN [topic |-> topic, lesson |-> lesson] ELSE map[i]]
    ELSE Append(map, [topic |-> topic, lesson |-> lesson])

\* The loop over normalized_topics that fills lesson_plan_map
RECURSIVE BuildLessonPlanMap(_, _, _, _)
BuildLessonPlanMap(topics, remedial_lessons, seen_lessons, map) ==
    IF topics = <<>> THEN map
    ELSE LET topic == Head(topics)
             m == MatchOf(topic, remedial_lessons)
             key == IF m = 0 THEN NoText ELSE lesson_key(remedial_lessons[m])
         IN IF expand_tag_keys(topic) = {} \/ m = 0 \/ AlreadyShown(key, seen_lessons)
            THEN BuildLessonPlanMap(Tail(topics), remedial_lessons, seen_lessons, map)
            ELSE BuildLessonPlanMap(Tail(topics), remedial_lessons,
                                    seen_lessons \cup {key},
                                    DictSet(map, topic, remedial_lessons[m]))

\* The LESSON_PLANS map show_results_page builds from an analysis and a lesson list
results_lesson_plans(stored, lessons) ==
    LET topics_from_analysis ==
            IF stored.weak_tags # <<>> THEN stored.weak_tags ELSE stored.weak_topics
        lesson_list == SortByOrder(lessons)
        remedial_lessons ==
            AtPositions(lesson_list,
                        {i \in DOMAIN lesson_list : str_lower(lesson_list[i].type) = T_remedial},
                        1)
    IN BuildLessonPlanMap(UniqueTopics(topics_from_analysis, {}), remedial_lessons, {}, <<>>)

(***************************************************************************)
(* SpecResults: the results page on bounded analyses and lesson lists      *)
(***************************************************************************)
MaxTopics == 3

T_for_loops == <<"f", "o", "r", " ", "(", "l", "o", "o", "p", "s", ")">>

T_if_else == <<"i", "f", "/", "e", "l", "s", "e">>

T_L1 == <<"L", "1">>

T_l1_padded == <<"l", "1", " ">>

T_L2 == <<"L", "2">>

T_L3 == <<"L", "3">>

T_Intro == <<"I", "n", "t", "r", "o">>

WeakTopics == {T_loops, T_Loops_padded, T_for_loops, T_if_else, T_else, T_blank}

\* The lessons of the subtopic as the data file lists them
LessonCatalogue ==
    << [id |-> T_L3, title |-> NoText, type |-> T_remedial, tags |-> <<T_else>>, order |-> 3],
       [id |-> T_L1, title |-> NoText, type |-> T_remedial, tags |-> <<T_LOOPS, T_if>>,
        order |-> 2],
       [id |-> T_l1_padded, title |-> NoText, type |-> <<"R">> \o Tail(T_remedial),
        tags |-> <<T_if_else>>, order |-> 4],
       [id |-> T_L2, title |-> NoText, type |-> <<"i", "n", "i", "t", "i", "a", "l">>,
        tags |-> <<T_loops>>, order |-> 1],
       [id |-> NoText, title |-> T_Intro, type |-> T_remedial, tags |-> <<T_else, T_pointers>>,
        order |-> 5] >>

ResInit ==
    /\ \E n \in 0..MaxTopics : \E topics \in [1..n -> WeakTopics] :
           res_analysis = [weak_tags |-> topics, weak_topics |-> topics]
    /\ \E Listed \in SUBSET DOMAIN LessonCatalogue :
           res_lessons = AtPositions(LessonCatalogue, Listed, 1)
    /\ lesson_plan_map = <<>>
    /\ res_done = FALSE

\* GET /results with a stored analysis: builds LESSON_PLANS and, when a topic
\* was kept, stores the kept topics back as the analysis' weak_topics
ShowResultsPage ==
    /\ OnlyRes
    /\ lesson_plan_map' = results_lesson_plans(res_analysis, res_lessons)
    /\ LET deduped_topics == [i \in DOMAIN lesson_plan_map' |-> lesson_plan_map'[i].topic]
       IN res_analysis' = IF deduped_topics # <<>>
                          THEN [res_analysis EXCEPT !.weak_topics = deduped_topics]
                          ELSE res_analysis
    /\ res_done' = TRUE
    /\ UNCHANGED res_lessons

ResNext == ShowResultsPage

ResIdle ==
    /\ res_analysis = [weak_tags |-> <<>>, weak_topics |-> <<>>]
    /\ res_lessons = <<>>
    /\ lesson_plan_map = <<>>
    /\ res_done = FALSE

(***************************************************************************)
(* ProgressService: the session cookie and the server-side state bucket    *)
(*                                                                         *)
(* Both are functions from key texts to values; a pair of them is handled  *)
(* as a record st = [session, user_state].                                 *)
(***************************************************************************)
\* The fixed session keys and the key types of get_session_key, as texts
K ==
    [current_subject |->
        <<"c", "u", "r", "r", "e", "n", "t", "_", "s", "u", "b", "j", "e", "c", "t">>,
     current_subtopic |->
        <<"c", "u", "r", "r", "e", "n", "t", "_", "s", "u", "b", "t", "o", "p", "i", "c">>,
     current_quiz_type |->
        <<"c", "u", "r", "r", "e", "n", "t", "_", "q", "u", "i", "z", "_", "t", "y", "p",
         "e">>,
     questions_served_for_analysis |->
        <<"q", "u", "e", "s", "t", "i", "o", "n", "s", "_", "s", "e", "r", "v", "e", "d",
         "_", "f", "o", "r", "_", "a", "n", "a", "l", "y", "s", "i", "s">>,
     quiz_answers |->
        <<"q", "u", "i", "z", "_", "a", "n", "s", "w", "e", "r", "s">>,
     analysis_results |->
        <<"a", "n", "a", "l", "y", "s", "i", "s", "_", "r", "e", "s", "u", "l", "t", "s">>,
     wrong_indices |->
        <<"w", "r", "o", "n", "g", "_", "i", "n", "d", "i", "c", "e", "s">>,
     weak_topics |->
        <<"w", "e", "a", "k", "_", "t", "o", "p", "i", "c", "s">>,
     remedial_questions |->
        <<"r", "e", "m", "e", "d", "i", "a", "l", "_", "q", "u", "e", "s", "t", "i", "o",
         "n", "s">>,
     remedial_topics |->
        <<"r", "e", "m", "e", "d", "i", "a", "l", "_", "t", "o", "p", "i", "c", "s">>,
     completed_lessons |->
        <<"c", "o", "m", "p", "l", "e", "t", "e", "d", "_", "l", "e", "s", "s", "o", "n",
         "s">>,
     watched_videos |->
        <<"w", "a", "t", "c", "h", "e", "d", "_", "v", "i", "d", "e", "o", "s">>,
     admin_override |->
        <<"a", "d", "m", "i", "n", "_", "o", "v", "e", "r", "r", "i", "d", "e">>,
     user_id |-> <<"u", "s", "e", "r", "_", "i", "d">>,
     is_admin |-> <<"i", "s", "_", "a", "d", "m", "i", "n">>]

\* dict[key] = value, dict.pop(keys), dict.get(key, default)
Put(f, k, v) == (k :> v) @@ f

Drop(f, Keys) == [k \in DOMAIN f \ Keys |-> f[k]]

Get(f, k, default) == IF k \in DOMAIN f THEN f[k] ELSE default

\* f"{subject}_{subtopic}"
PairPrefix(subject, subtopic) == subject \o <<"_">> \o subtopic

\* get_session_key: f"{subject}_{subtopic}_{key_type}"
get_session_key(subject, subtopic, key_type) ==
    PairPrefix(subject, subtopic) \o <<"_">> \o key_type

StateCategories ==
    {"quiz_questions", "quiz_answers", "quiz_analysis", "remedial_questions",
     "remedial_topics"}

\* _clear_user_state_for_subject
clear_user_state_for_subject(st, subject, subtopic) ==
    [st EXCEPT !.user_state =
        Drop(@, {ck \in DOMAIN @ :
                    /\ ck[1] \in StateCategories
                    /\ startswith(ck[2], PairPrefix(subject, subtopic) \o <<"_">>)})]

\* Mutant: nothing of the pair is cleared.
clear_session_data_nothing(st, subject, subtopic) == st

\* clear_session_data
clear_session_data(st, subject, subtopic) ==
    clear_user_state_for_subject(
        [st EXCEPT !.session =
            Drop(@, {k \in DOMAIN @ : startswith(k, PairPrefix(subject, subtopic))})],
        subject, subtopic)

\* clear_quiz_session_data
clear_quiz_session_data(st, subject, subtopic) ==
    [session |-> Drop(st.session, {get_session_key(subject, subtopic, K.current_quiz_type)}),
     user_state |->
        Drop(st.user_state,
             {<<"quiz_questions",
                get_session_key(subject, subtopic, K.questions_served_for_analysis)>>,
              <<"quiz_answers", get_session_key(subject, subtopic, K.quiz_answers)>>,
              <<"quiz_analysis", get_session_key(subject, subtopic, K.analysis_results)>>})]

\* reset_quiz_context (its global keys quiz_analysis, quiz_answers and
\* quiz_generation_error are never written by the application)
reset_quiz_context(st) ==
    LET current_subject == Get(st.session, K.current_subject, NoText)
        current_subtopic == Get(st.session, K.current_subtopic, NoText)
        cleared == IF current_subject # NoText /\ current_subtopic # NoText
                   THEN clear_quiz_session_data(st, current_subject, current_subtopic)
                   ELSE st
    IN [cleared EXCEPT !.session = Drop(@, {K.current_subject, K.current_subtopic})]

\* _sanitize_questions_for_session: questions without text are dropped, the
\* id defaults to the identifier, at most max_questions are kept
RECURSIVE sanitize_questions_for_session(_, _)
sanitize_questions_for_session(questions, max_questions) ==
    IF questions = <<>> \/ max_questions = 0 THEN <<>>
    ELSE IF Head(questions).question = NoText
    THEN sanitize_questions_for_session(Tail(questions), max_questions)
    ELSE <<[Head(questions) EXCEPT !.id = Identifier(Head(questions))]>> \o
         sanitize_questions_for_session(Tail(questions), max_questions - 1)

\* set_quiz_session_data (the quiz questions are stored without a cap)
set_quiz_session_data(st, subject, subtopic, quiz_type, questions) ==
    [session |->
        Put(Put(Put(st.session, get_session_key(subject, subtopic, K.current_quiz_type),
                    quiz_type),
                K.current_subject, subject),
            K.current_subtopic, subtopic),
     user_state |->
        Put(st.user_state,
            <<"quiz_questions",
              get_session_key(subject, subtopic, K.questions_served_for_analysis)>>,
            sanitize_questions_for_session(questions, Len(questions)))]

\* set_remedial_quiz_data with a topics list
set_remedial_quiz_data(st, subject, subtopic, questions, topics) ==
    [st EXCEPT !.user_state =
        Put(Put(@, <<"remedial_questions",
                     get_session_key(subject, subtopic, K.remedial_questions)>>,
                sanitize_questions_for_session(questions, MAX_QUESTIONS)),
            <<"remedial_topics", get_session_key(subject, subtopic, K.remedial_topics)>>,
            AtPositions(topics, {i \in DOMAIN topics : str_strip(topics[i]) # NoText}, 1))]

\* clear_remedial_quiz_data
clear_remedial_quiz_data(st, subject, subtopic) ==
    [session |->
        Drop(st.session, {get_session_key(subject, subtopic, K.remedial_questions),
                          get_session_key(subject, subtopic, K.remedial_topics)}),
     user_state |->
        Drop(st.user_state,
             {<<"remedial_questions",
                get_session_key(subject, subtopic, K.remedial_questions)>>,
              <<"remedial_topics", get_session_key(subject, subtopic, K.remedial_topics)>>})]

\* store_quiz_analysis: the sanitized copy keeps the weak and missed tag lists
store_quiz_analysis(st, subject, subtopic, stored) ==
    [st EXCEPT !.user_state =
        Put(@, <<"quiz_analysis", get_session_key(subject, subtopic, K.analysis_results)>>,
            stored)]

\* set_weak_topics: the same strip / skip-empty / first-spelling loop as _normalize_tags
set_weak_topics(st, subject, subtopic, topics) ==
    [st EXCEPT !.session =
        Put(@, get_session_key(subject, subtopic, K.weak_topics), normalize_tags(topics))]

\* store_wrong_indices (the indices are non-negative integers already)
store_wrong_indices(st, subject, subtopic, wrong_indices) ==
    [st EXCEPT !.user_state =
        Put(@, <<"quiz_analysis", get_session_key(subject, subtopic, K.wrong_indices)>>,
            wrong_indices)]

\* store_quiz_answers
store_quiz_answers(st, subject, subtopic, answers) ==
    [st EXCEPT !.user_state =
        Put(@, <<"quiz_answers", get_session_key(subject, subtopic, K.quiz_answers)>>,
            answers)]

(***************************************************************************)
(* The content files: subjects, subtopics, quizzes, pools                  *)
(***************************************************************************)
T_py == <<"p", "y">>

T_js == <<"j", "s">>

T_if_x == <<"i", "f", "_", "x">>

T_old == <<"o", "l", "d">>

T_new == <<"n", "e", "w">>

T_arr == <<"a", "r", "r">>

T_gone == <<"g", "o", "n", "e">>

T_inactive == <<"i", "n", "a", "c", "t", "i", "v", "e">>

T_Active_padded == <<" ", "A", "c", "t", "i", "v", "e">>

\* A multiple-choice question whose correct answer is "a"
Question(id, text, tags) ==
    [id |-> id, question |-> text, type |-> "multiple_choice", correct_answer |-> T_a,
     tags |-> tags]

NoSubtopic == [valid |-> FALSE, status |-> NoText, quiz |-> <<>>, pool |-> <<>>, lessons |-> <<>>]

\* What the data files hold for a subject/subtopic: py/if has a quiz, a pool
\* and lessons; py/if_x a quiz but no pool; js/arr an untagged quiz and a
\* pool; py/old is inactive; js/new has no quiz; anything else does not exist.
SubtopicData(subject, subtopic) ==
    CASE subject = T_py /\ subtopic = T_if ->
            [valid |-> TRUE, status |-> T_Active_padded,
             quiz |-> <<Question(<<"d", "1">>, <<"D", "1", "?">>, <<T_if>>),
                        Question(<<"d", "2">>, <<"D", "2", "?">>, <<T_Loops_padded>>)>>,
             pool |-> <<Question(NoText, <<"P", "1", "?">>, <<T_if>>),
                        Question(<<"p", "2">>, <<"P", "2", "?">>, <<T_loops>>),
                        Question(<<"p", "3">>, <<"P", "3", "?">>, <<>>)>>,
             lessons |-> LessonCatalogue]
      [] subject = T_py /\ subtopic = T_if_x ->
            [valid |-> TRUE, status |-> NoText,
             quiz |-> <<Question(<<"e", "1">>, <<"E", "1", "?">>, <<T_else>>)>>,
             pool |-> <<>>, lessons |-> <<>>]
      [] subject = T_js /\ subtopic = T_arr ->
            [valid |-> TRUE, status |-> NoText,
             quiz |-> <<Question(<<"a", "1">>, <<"A", "1", "?">>, <<>>)>>,
             pool |-> <<Question(<<"r", "1">>, <<"R", "1", "?">>, <<T_else>>)>>,
             lessons |-> <<>>]
      [] subject = T_py /\ subtopic = T_old ->
            [NoSubtopic EXCEPT !.valid = TRUE, !.status = T_inactive,
                               !.quiz = <<Question(<<"o", "1">>, <<"O", "1", "?">>, <<>>)>>]
      [] subject = T_js /\ subtopic = T_new -> [NoSubtopic EXCEPT !.valid = TRUE]
      [] OTHER -> NoSubtopic

\* get_subject_allowed_tags
SubjectAllowedTags(subject) == IF subject = T_py THEN <<T_if, T_loops>> ELSE <<>>

\* is_active_subtopic: the stripped lower-cased status is "" or "active"
is_active_subtopic(subtopic_data) ==
    CleanKey(subtopic_data.status) \in {NoText, <<"a", "c", "t", "i", "v", "e">>}

(***************************************************************************)
(* AIService.generate_remedial_quiz and the quiz routes                    *)
(***************************************************************************)
\* target_topics: the cleaned tags of the wrong questions and the cleaned
\* non-empty weak topics
TargetTopics(original_questions, wrong_answers, weak_topics) ==
    UNION {{CleanKey(original_questions[wrong_answers[k] + 1].tags[j]) :
               j \in {i \in DOMAIN original_questions[wrong_answers[k] + 1].tags :
                         original_questions[wrong_answers[k] + 1].tags[i] # NoText}} :
           k \in {i \in DOMAIN wrong_answers : wrong_answers[i] < Len(original_questions)}}
    \cup CleanTagSet(weak_topics)

\* list(a_set), in some order
RECURSIVE SetToSeq(_)
SetToSeq(S) ==
    IF S = {} THEN <<>> ELSE LET x == CHOOSE x \in S : TRUE IN <<x>> \o SetToSeq(S \ {x})

\* Mutant: the remedial quiz repeats the diagnostic questions.
generate_remedial_quiz_repeat(original_questions, wrong_answers, pool, weak_topics, key, reply, rnd) ==
    original_questions

\* AIService.generate_remedial_quiz
generate_remedial_quiz(original_questions, wrong_answers, pool, weak_topics, key, reply, rnd) ==
    IF pool = <<>> THEN <<>>
    ELSE IF TargetTopics(original_questions, wrong_answers, weak_topics) = {} THEN <<>>
    ELSE select_remedial_questions(
             pool, SetToSeq(TargetTopics(original_questions, wrong_answers, weak_topics)),
             key, reply, rnd)

Reply(st, status, returned) == [st |-> st, status |-> status, returned |-> returned]

\* GET /quiz/<subject>/<subtopic>
quiz_page(st, subject, subtopic) ==
    LET data == SubtopicData(subject, subtopic)
        cleared == reset_quiz_context(clear_session_data(st, subject, subtopic))
    IN IF ~data.valid THEN Reply(st, 404, <<>>)
       ELSE IF ~is_active_subtopic(data) THEN Reply(st, 302, <<>>)
       ELSE IF data.quiz = <<>> THEN Reply(cleared, 404, <<>>)
       ELSE Reply(clear_remedial_quiz_data(
                      set_quiz_session_data(cleared, subject, subtopic, "initial", data.quiz),
                      subject, subtopic),
                  200, <<>>)

\* answers[index] = str(raw_answers.get(f"q{index}", "")).strip()
PayloadAnswers(questions, raw_answers) ==
    [i \in DOMAIN questions |->
        IF i <= Len(raw_answers) THEN str_strip(raw_answers[i]) ELSE NoText]

\* The sanitized analysis the session keeps (weak_areas equals weak_tags)
StoredAnalysis(result) ==
    [weak_tags |-> result.weak_tags, weak_topics |-> result.weak_tags,
     missed_tags |-> result.missed_tags]

\* stored.get("weak_tags") or stored.get("weak_topics") or stored.get("missed_tags")
WeakTopicCandidates(stored) ==
    IF stored.weak_tags # <<>> THEN stored.weak_tags
    ELSE IF stored.weak_topics # <<>> THEN stored.weak_topics
    ELSE stored.missed_tags

\* The current pair of the session; NoText fields when there is none
CurrentSubject(st) == Get(st.session, K.current_subject, NoText)

CurrentSubtopic(st) == Get(st.session, K.current_subtopic, NoText)

HasCurrent(st) == CurrentSubject(st) # NoText /\ CurrentSubtopic(st) # NoText

\* get_quiz_session_data(...)["questions"], get_wrong_indices, get_weak_topics,
\* get_quiz_analysis, get_remedial_quiz_questions for the current pair
StateOf(st, category, key_type, default) ==
    Get(st.user_state,
        <<category, get_session_key(CurrentSubject(st), CurrentSubtopic(st), key_type)>>,
        default)

SessionQuestions(st) == StateOf(st, "quiz_questions", K.questions_served_for_analysis, <<>>)

get_weak_topics(st) ==
    Get(st.session,
        get_session_key(CurrentSubject(st), CurrentSubtopic(st), K.weak_topics), <<>>)

NoStoredAnalysis == [weak_tags |-> <<>>, weak_topics |-> <<>>, missed_tags |-> <<>>]

\* The four stores of POST /analyze, given the analysis result
StoreAnalysis(st, subject, subtopic, result, answers) ==
    store_quiz_answers(
        store_wrong_indices(
            set_weak_topics(
                store_quiz_analysis(st, subject, subtopic, StoredAnalysis(result)),
                subject, subtopic, WeakTopicCandidates(StoredAnalysis(result))),
            subject, subtopic, result.wrong_question_indices),
        subject, subtopic, answers)

\* analyze_quiz_performance on the session's questions and the submitted answers
AnalysisOf(st, raw_answers, ai) ==
    analyze_quiz_performance(
        SessionQuestions(st), PayloadAnswers(SessionQuestions(st), raw_answers),
        SubjectAllowedTags(CurrentSubject(st)), ai)

\* POST /analyze
analyze_quiz(st, raw_answers, ai) ==
    IF ~HasCurrent(st) THEN Reply(st, 400, <<>>)
    ELSE IF SessionQuestions(st) = <<>> THEN Reply(st, 400, <<>>)
    ELSE Reply(StoreAnalysis(st, CurrentSubject(st), CurrentSubtopic(st),
                             AnalysisOf(st, raw_answers, ai),
                             PayloadAnswers(SessionQuestions(st), raw_answers)),
               200, <<>>)

\* GET /results: the deduplicated topics of a non-empty LESSON_PLANS are
\* stored back as the analysis' weak_topics
show_results(st) ==
    IF ~HasCurrent(st) \/ <<"quiz_analysis",
                           get_session_key(CurrentSubject(st), CurrentSubtopic(st),
                                           K.analysis_results)>> \notin DOMAIN st.user_state
    THEN Reply(st, 302, <<>>)
    ELSE LET stored == StateOf(st, "quiz_analysis", K.analysis_results, NoStoredAnalysis)
             map == results_lesson_plans(
                        stored, SubtopicData(CurrentSubject(st), CurrentSubtopic(st)).lessons)
         IN IF map = <<>> THEN Reply(st, 200, <<>>)
            ELSE Reply(store_quiz_analysis(
                           st, CurrentSubject(st), CurrentSubtopic(st),
                           [stored EXCEPT !.weak_topics = [i \in DOMAIN map |-> map[i].topic]]),
                       200, <<>>)

\* weak_topics_raw of /generate_remedial_quiz: the session's weak topics or,
\* when there are none, those of the stored analysis
WeakTopicsRaw(st) ==
    IF get_weak_topics(st) # <<>> THEN get_weak_topics(st)
    ELSE LET stored == StateOf(st, "quiz_analysis", K.analysis_results, NoStoredAnalysis)
         IN IF stored.weak_topics # <<>> THEN stored.weak_topics ELSE stored.weak_tags

\* The tail of /generate_remedial_quiz once a pool and weak topics are known
GenerateFromPool(st, subject, subtopic, pool, weak_topics, remedial_questions) ==
    IF pool = <<>> THEN Reply(st, 404, <<>>)
    ELSE IF remedial_questions = <<>> THEN Reply(st, 500, <<>>)
    ELSE Reply(set_quiz_session_data(
                   set_remedial_quiz_data(st, subject, subtopic, remedial_questions,
                                          IF weak_topics # <<>> THEN weak_topics
                                          ELSE get_weak_topics(st)),
                   subject, subtopic, "remedial", remedial_questions),
               200, remedial_questions)

\* GET /generate_remedial_quiz
generate_remedial_quiz_route(st, key, reply, rnd) ==
    IF ~HasCurrent(st) THEN Reply(st, 400, <<>>)
    ELSE IF SessionQuestions(st) = <<>> THEN Reply(st, 400, <<>>)
    ELSE LET subject == CurrentSubject(st)
             subtopic == CurrentSubtopic(st)
             wrong_indices == StateOf(st, "quiz_analysis", K.wrong_indices, <<>>)
             weak_topics == normalize_tags(WeakTopicsRaw(st))
             st1 == IF weak_topics # <<>> /\ get_weak_topics(st) = <<>>
                    THEN set_weak_topics(st, subject, subtopic, weak_topics)
                    ELSE st
             pool == SubtopicData(subject, subtopic).pool
         IN IF wrong_indices = <<>> /\ weak_topics = <<>> THEN Reply(st1, 400, <<>>)
            ELSE GenerateFromPool(
                     st1, subject, subtopic, pool, weak_topics,
                     generate_remedial_quiz(SessionQuestions(st), wrong_indices, pool,
                                            weak_topics, key, reply, rnd))

\* GET /take_remedial_quiz: 200 with the stored remedial questions, else a redirect
take_remedial_quiz_page(st) ==
    IF ~HasCurrent(st) THEN Reply(st, 302, <<>>)
    ELSE IF StateOf(st, "remedial_questions", K.remedial_questions, <<>>) = <<>>
    THEN Reply(st, 302, <<>>)
    ELSE Reply(st, 200, StateOf(st, "remedial_questions", K.remedial_questions, <<>>))

(***************************************************************************)
(* SpecQuiz: the requests of one browser session                           *)
(***************************************************************************)
MaxRequests == 5

\* The subject/subtopic pairs a request may name
RequestPairs ==
    {<<T_py, T_if>>, <<T_py, T_if_x>>, <<T_js, T_arr>>, <<T_py, T_old>>, <<T_js, T_new>>,
     <<T_js, T_gone>>}

\* The answers a submission may carry, by question position (the correct answer is "a")
RawAnswers == {<<>>, <<T_a, T_A_padded, T_a>>, <<T_b, T_a, T_a>>, <<T_a, T_b>>}

QuizAiResponses ==
    {[kind |-> "unavailable", weak_concept_tags |-> <<>>],
     [kind |-> "parsed", weak_concept_tags |-> <<>>],
     [kind |-> "parsed", weak_concept_tags |-> <<T_LOOPS, T_pointers>>]}

\* The API key and LLM reply of a selection: no key, an error, or index lists
QuizSelections ==
    {[key |-> FALSE, reply |-> [kind |-> "error"]],
     [key |-> TRUE, reply |-> [kind |-> "error"]],
     [key |-> TRUE, reply |-> [kind |-> "indices", indices |-> <<1, 1, 7>>]]}

QuizRandom == [rot : 0..1, rev : {FALSE}, pick : {0}]

NoResponse == [route |-> "none", status |-> 0, pair |-> <<NoText, NoText>>, returned |-> <<>>]

NotAnalysed == [p \in RequestPairs |-> "none"]

QuizInit ==
    /\ session = <<>>
    /\ user_state = <<>>
    /\ response = NoResponse
    /\ quiz_served = {}
    /\ quiz_analysed = NotAnalysed
    /\ quiz_requests = 0

\* A request: the handler's new stores and its response
Request(route, result) ==
    /\ OnlyQuiz
    /\ quiz_requests < MaxRequests
    /\ quiz_requests' = quiz_requests + 1
    /\ session' = result.st.session
    /\ user_state' = result.st.user_state
    /\ response' = [route |-> route, status |-> result.status,
                    pair |-> <<Get(session, K.current_subject, NoText),
                               Get(session, K.current_subtopic, NoText)>>,
                    returned |-> result.returned]

Store == [session |-> session, user_state |-> user_state]

QuizPage(pair) ==
    /\ Request("quiz", quiz_page(Store, pair[1], pair[2]))
    /\ IF response'.status = 200
       THEN /\ quiz_served' = quiz_served \cup {pair}
            /\ quiz_analysed' = [quiz_analysed EXCEPT ![pair] = "none"]
       ELSE UNCHANGED <<quiz_served, quiz_analysed>>

\* The analysis recorded a wrong-answer index or a weak topic
RecordedWeakness(result) ==
    \/ result.wrong_question_indices # <<>>
    \/ result.weak_tags # <<>>
    \/ result.missed_tags # <<>>

AnalyzeQuiz(raw_answers, ai) ==
    /\ Request("analyze", analyze_quiz(Store, raw_answers, ai))
    /\ quiz_analysed' =
           IF response'.status = 200
           THEN [quiz_analysed EXCEPT ![response'.pair] =
                    IF RecordedWeakness(AnalysisOf(Store, raw_answers, ai))
                    THEN "weak" ELSE "clean"]
           ELSE quiz_analysed
    /\ UNCHANGED quiz_served

ShowResults ==
    /\ Request("results", show_results(Store))
    /\ UNCHANGED <<quiz_served, quiz_analysed>>

GenerateRemedialQuiz(sel, rnd) ==
    /\ Request("generate_remedial_quiz",
               generate_remedial_quiz_route(Store, sel.key, sel.reply, rnd))
    /\ UNCHANGED <<quiz_served, quiz_analysed>>

TakeRemedialQuiz ==
    /\ Request("take_remedial_quiz", take_remedial_quiz_page(Store))
    /\ UNCHANGED <<quiz_served, quiz_analysed>>

\* GET /logout: session.clear(); the server-side bucket is keyed by the
\* cookie's _server_state_id and cannot be reached again, a new session starts
Logout ==
    /\ Request("logout", Reply([session |-> <<>>, user_state |-> <<>>], 302, <<>>))
    /\ quiz_served' = {}
    /\ quiz_analysed' = NotAnalysed

QuizNext ==
    \/ \E pair \in RequestPairs : QuizPage(pair)
    \/ \E raw_answers \in RawAnswers, ai \in QuizAiResponses : AnalyzeQuiz(raw_answers, ai)
    \/ ShowResults
    \/ \E sel \in QuizSelections, rnd \in QuizRandom : GenerateRemedialQuiz(sel, rnd)
    \/ TakeRemedialQuiz
    \/ Logout

QuizIdle ==
    /\ session = <<>>
    /\ user_state = <<>>
    /\ response = NoResponse
    /\ quiz_served = {}
    /\ quiz_analysed = NotAnalysed
    /\ quiz_requests = 0

(***************************************************************************)
(* Lesson files, lesson and video completion, admin override and the       *)
(* prerequisite checks                                                     *)
(*                                                                         *)
(* cookie is one session cookie, db the rows of lesson_progress, files     *)
(* the lesson files.  Lessons carry the fields id, type and status; every  *)
(* lesson of the files has an id and none has an order, so the stable sort *)
(* by order in get_lesson_plans leaves the file's sequence as it is.       *)
(***************************************************************************)
T_initial == <<"i", "n", "i", "t", "i", "a", "l">>

T_all == <<"a", "l", "l">>

T_active == <<"a", "c", "t", "i", "v", "e">>

T_draft == <<"d", "r", "a", "f", "t">>

T_v1 == <<"v", "1">>

\* The lesson statuses _is_lesson_listed hides
HiddenStatuses ==
    {<<"u", "n", "l", "i", "s", "t", "e", "d">>, T_inactive,
     <<"u", "n", "a", "v", "a", "i", "l", "a", "b", "l", "e">>,
     <<"h", "i", "d", "d", "e", "n">>, <<"a", "r", "c", "h", "i", "v", "e", "d">>,
     <<"d", "i", "s", "a", "b", "l", "e", "d">>, T_draft}

\* _is_lesson_listed
is_lesson_listed(lesson) == CleanKey(lesson.status) \notin HiddenStatuses

\* get_lesson_plans: nothing for a subtopic whose status is neither empty
\* nor "active" when include_unlisted is off, else the (listed) lessons
get_lesson_plans(files, subject, subtopic, include_unlisted) ==
    LET subtopic_status == CleanKey(SubtopicData(subject, subtopic).status)
        lesson_list == Get(files, <<subject, subtopic>>, <<>>)
    IN IF ~include_unlisted /\ subtopic_status # NoText /\ subtopic_status # T_active
       THEN <<>>
       ELSE IF include_unlisted THEN lesson_list
       ELSE SelectSeq(lesson_list, is_lesson_listed)

\* get_lesson_map(subject, subtopic).get(lesson_id, {}): the positions of the
\* lessons with that id
LessonPositions(lessons, lesson_id) == {i \in DOMAIN lessons : lessons[i].id = lesson_id}

\* videos.json: the video ids of a subject/subtopic
SubtopicVideos(subject, subtopic) ==
    IF subject = T_py /\ subtopic = T_if THEN <<T_v1>> ELSE <<>>

\* subject_config.json: the prerequisites configured for a subtopic
SubtopicPrerequisites(subject, subtopic) ==
    IF subject = T_py /\ subtopic = T_if THEN <<T_if_x, T_blank, T_gone>> ELSE <<>>

\* Mutant: the override is never seen.
get_admin_override_status_off(cookie) == FALSE

\* get_admin_override_status: session.get("admin_override", False)
get_admin_override_status(cookie) == Get(cookie, K.admin_override, FALSE)

\* set_admin_override
set_admin_override(cookie, enabled) == Put(cookie, K.admin_override, enabled)

\* toggle_admin_override
toggle_admin_override(cookie) ==
    set_admin_override(cookie, ~get_admin_override_status(cookie))

\* The row of lesson_progress for an item of a student
ProgressRow(user_id, subject, subtopic, item_id, item_type, completed) ==
    [student_id |-> user_id, subject |-> subject, subtopic |-> subtopic,
     item_id |-> item_id, item_type |-> item_type, completed |-> completed]

\* _persist_completion: nothing without a logged-in user, else the item's
\* row is updated or added
persist_completion(cookie, db, subject, subtopic, item_id, item_type, completed) ==
    LET user_id == Get(cookie, K.user_id, 0)
        row == ProgressRow(user_id, subject, subtopic, item_id, item_type, completed)
        Same == {i \in DOMAIN db : [db[i] EXCEPT !.completed = completed] = row}
    IN IF user_id = 0 THEN db
       ELSE IF Same = {} THEN Append(db, row)
       ELSE LET first == CHOOSE i \in Same : \A j \in Same : i <= j
            IN [i \in DOMAIN db |-> IF i = first THEN row ELSE db[i]]

\* mark_lesson_complete / mark_video_complete, by the key type of the list
mark_complete(cookie, db, subject, subtopic, item_id, key_type, item_type) ==
    LET key == get_session_key(subject, subtopic, key_type)
        items == Get(cookie, key, <<>>)
    IN [cookie |-> IF item_id \in Range(items) THEN cookie
                   ELSE Put(cookie, key, Append(items, item_id)),
        db |-> persist_completion(cookie, db, subject, subtopic, item_id, item_type, TRUE)]

mark_lesson_complete(cookie, db, subject, subtopic, lesson_id) ==
    mark_complete(cookie, db, subject, subtopic, lesson_id, K.completed_lessons, "lesson")

mark_video_complete(cookie, db, subject, subtopic, video_id) ==
    mark_complete(cookie, db, subject, subtopic, video_id, K.watched_videos, "video")

\* is_lesson_complete / is_video_complete: membership in the session's list
is_lesson_complete(cookie, subject, subtopic, lesson_id) ==
    lesson_id \in Range(Get(cookie, get_session_key(subject, subtopic, K.completed_lessons),
                            <<>>))

is_video_complete(cookie, subject, subtopic, video_id) ==
    video_id \in Range(Get(cookie, get_session_key(subject, subtopic, K.watched_videos),
                           <<>>))

\* The item ids of the student's completed lesson rows of a subject/subtopic
RECURSIVE CompletedRows(_, _, _, _)
CompletedRows(db, user_id, subject, subtopic) ==
    IF db = <<>> THEN <<>>
    ELSE LET row == Head(db)
             rest == CompletedRows(Tail(db), user_id, subject, subtopic)
         IN IF row = ProgressRow(user_id, subject, subtopic, row.item_id, "lesson", TRUE)
            THEN <<row.item_id>> \o rest ELSE rest

\* get_completed_lessons: the session's list when it is not empty, else the
\* logged-in student's rows, which are then stored in the session
get_completed_lessons(cookie, db, subject, subtopic) ==
    LET completed_key == get_session_key(subject, subtopic, K.completed_lessons)
        completed_lessons == Get(cookie, completed_key, <<>>)
        user_id == Get(cookie, K.user_id, 0)
        records == CompletedRows(db, user_id, subject, subtopic)
    IN IF completed_lessons # <<>> THEN [cookie |-> cookie, completed |-> completed_lessons]
       ELSE IF user_id = 0 THEN [cookie |-> cookie, completed |-> <<>>]
       ELSE [cookie |-> Put(cookie, completed_key, records), completed |-> records]

\* get_watched_videos
get_watched_videos(cookie, subject, subtopic) ==
    Get(cookie, get_session_key(subject, subtopic, K.watched_videos), <<>>)

\* Mutant: lessons of every type are required.
include_lesson_any(entry, lesson_type) == TRUE

\* include_lesson of _collect_subtopic_content_status
include_lesson(entry, lesson_type) ==
    LET normalized_lesson_type == CleanKey(lesson_type)
        raw_type == CleanKey(entry.type)
    IN IF normalized_lesson_type = NoText THEN TRUE
       ELSE IF normalized_lesson_type = T_initial THEN raw_type \in {NoText, T_initial, T_all}
       ELSE IF normalized_lesson_type = T_remedial THEN raw_type \in {T_remedial, T_all}
       ELSE raw_type = normalized_lesson_type

\* The ids of a list of lessons, in order
LessonIdsOf(lessons) == [i \in DOMAIN lessons |-> lessons[i].id]

\* _collect_subtopic_content_status (a lesson's title is its id)
collect_subtopic_content_status(cookie, db, files, subject, subtopic, lesson_type) ==
    LET lessons == get_lesson_plans(files, subject, subtopic, FALSE)
        Included(lesson) == include_lesson(lesson, lesson_type)
        lesson_ids == LessonIdsOf(SelectSeq(lessons, Included))
        got == get_completed_lessons(cookie, db, subject, subtopic)
        NotCompleted(lesson_id) == lesson_id \notin Range(got.completed)
        missing_lessons == SelectSeq(lesson_ids, NotCompleted)
        video_ids == SubtopicVideos(subject, subtopic)
        NotWatched(video_id) ==
            video_id \notin Range(get_watched_videos(got.cookie, subject, subtopic))
        missing_videos == SelectSeq(video_ids, NotWatched)
    IN [cookie |-> got.cookie,
        lesson_ids |-> lesson_ids,
        video_ids |-> video_ids,
        missing_lessons |-> missing_lessons,
        missing_videos |-> missing_videos,
        lessons_complete |-> missing_lessons = <<>>,
        videos_complete |-> missing_videos = <<>>,
        total_lessons |-> Len(lesson_ids),
        total_videos |-> Len(video_ids),
        all_content_complete |-> missing_lessons = <<>> /\ missing_videos = <<>>]

\* check_quiz_prerequisites: the new cookie and the returned dictionary
check_quiz_prerequisites(cookie, db, files, subject, subtopic) ==
    LET status == collect_subtopic_content_status(cookie, db, files, subject, subtopic,
                                                  T_initial)
        admin_override == get_admin_override_status(cookie)
        all_met == admin_override \/ status.all_content_complete
    IN [cookie |-> status.cookie,
        result |-> [has_prerequisites |-> status.total_lessons + status.total_videos > 0,
                    lessons_complete |-> status.lessons_complete,
                    videos_complete |-> status.videos_complete,
                    missing_lessons |-> status.missing_lessons,
                    missing_videos |-> status.missing_videos,
                    admin_override |-> admin_override,
                    all_met |-> all_met,
                    can_take_quiz |-> all_met,
                    prerequisites_met |-> all_met]]

\* The prerequisite loop of check_subtopic_prerequisites: the ids that are
\* not in the subject configuration or whose initial content is incomplete
RECURSIVE MissingPrerequisites(_, _, _, _, _)
MissingPrerequisites(cookie, db, files, subject, prerequisite_ids) ==
    IF prerequisite_ids = <<>> THEN [cookie |-> cookie, missing_ids |-> <<>>]
    ELSE LET prereq_id == Head(prerequisite_ids)
             found == SubtopicData(subject, prereq_id).valid
             progress == collect_subtopic_content_status(cookie, db, files, subject,
                                                         prereq_id, T_initial)
             rest == MissingPrerequisites(IF found THEN progress.cookie ELSE cookie,
                                          db, files, subject, Tail(prerequisite_ids))
         IN [cookie |-> rest.cookie,
             missing_ids |-> IF found /\ progress.all_content_complete
                             THEN rest.missing_ids
                             ELSE <<prereq_id>> \o rest.missing_ids]

\* check_subtopic_prerequisites: the new cookie and the returned dictionary
check_subtopic_prerequisites(cookie, db, files, subject, subtopic) ==
    LET subtopic_status == SubtopicData(subject, subtopic).status
        NonBlank(prereq) == str_strip(prereq) # NoText
        prerequisite_ids == SelectSeq(SubtopicPrerequisites(subject, subtopic), NonBlank)
        admin_override == get_admin_override_status(cookie)
        missing == MissingPrerequisites(cookie, db, files, subject, prerequisite_ids)
        prerequisites_met == admin_override \/ missing.missing_ids = <<>>
    IN IF subtopic_status = T_inactive
       THEN [cookie |-> cookie,
             result |-> [is_active |-> FALSE, subtopic_inactive |-> TRUE,
                         can_access_subtopic |-> FALSE, has_prerequisites |-> FALSE,
                         admin_override |-> FALSE, prerequisite_ids |-> <<>>,
                         missing_prerequisite_ids |-> <<>>, prerequisites_met |-> FALSE]]
       ELSE [cookie |-> missing.cookie,
             result |-> [is_active |-> TRUE, subtopic_inactive |-> FALSE,
                         can_access_subtopic |-> prerequisites_met,
                         has_prerequisites |-> prerequisite_ids # <<>>,
                         admin_override |-> admin_override,
                         prerequisite_ids |-> prerequisite_ids,
                         missing_prerequisite_ids |-> missing.missing_ids,
                         prerequisites_met |-> prerequisites_met]]

\* migrate_lesson_id: old_id becomes new_id in the completed lessons of the
\* session of the request
migrate_lesson_id(cookie, subject, subtopic, old_id, new_id) ==
    LET completed_key == get_session_key(subject, subtopic, K.completed_lessons)
        completed_lessons == Get(cookie, completed_key, <<>>)
    IN IF old_id \in Range(completed_lessons)
       THEN [cookie |-> Put(cookie, completed_key,
                            [i \in DOMAIN completed_lessons |->
                                IF completed_lessons[i] = old_id THEN new_id
                                ELSE completed_lessons[i]]),
             success |-> TRUE, updated_count |-> 1]
       ELSE [cookie |-> cookie, success |-> TRUE, updated_count |-> 0]

\* delete_lesson_from_file: fails when there is no file or no such lesson
delete_lesson_from_file(files, subject, subtopic, lesson_id) ==
    LET lessons == Get(files, <<subject, subtopic>>, <<>>)
        Others(lesson) == lesson.id # lesson_id
        kept == SelectSeq(lessons, Others)
    IN IF <<subject, subtopic>> \notin DOMAIN files \/ Len(kept) = Len(lessons)
       THEN [ok |-> FALSE, files |-> files]
       ELSE [ok |-> TRUE, files |-> Put(files, <<subject, subtopic>>, kept)]

\* save_lesson_to_file: the lesson replaces the first one with its id, else
\* it is appended
save_lesson_to_file(files, subject, subtopic, lesson_id, lesson_data) ==
    LET lessons == Get(files, <<subject, subtopic>>, <<>>)
        serialised_lesson == [lesson_data EXCEPT !.id = lesson_id]
        At == LessonPositions(lessons, lesson_id)
    IN Put(files, <<subject, subtopic>>,
           IF At = {} THEN Append(lessons, serialised_lesson)
           ELSE LET index == CHOOSE i \in At : \A j \in At : i <= j
                IN [lessons EXCEPT ![index] = serialised_lesson])

UpdateFailed(cookie, files, error) ==
    [cookie |-> cookie, files |-> files,
     result |-> [success |-> FALSE, id_changed |-> FALSE, error |-> error]]

\* update_lesson, for a payload that carries no order
update_lesson(cookie, files, subject, subtopic, lesson_id, lesson_data) ==
    LET new_lesson_id == lesson_data.id
        id_changed == new_lesson_id # lesson_id
        existing_lessons == get_lesson_plans(files, subject, subtopic, TRUE)
        deleted == delete_lesson_from_file(files, subject, subtopic, lesson_id)
        migration_result == migrate_lesson_id(cookie, subject, subtopic, lesson_id,
                                              new_lesson_id)
        saved(from, jar) ==
            [cookie |-> jar,
             files |-> save_lesson_to_file(from, subject, subtopic, new_lesson_id,
                                           lesson_data),
             result |-> [success |-> TRUE, id_changed |-> id_changed,
                         new_lesson_id |-> new_lesson_id]]
    IN IF ~SubtopicData(subject, subtopic).valid
       THEN UpdateFailed(cookie, files, "Invalid subject/subtopic combination")
       ELSE IF ~id_changed THEN saved(files, cookie)
       ELSE IF LessonPositions(existing_lessons, new_lesson_id) # {}
       THEN UpdateFailed(cookie, files, "Lesson ID already exists")
       ELSE IF ~deleted.ok
       THEN UpdateFailed(cookie, files, "Failed to remove old lesson entry during ID change")
       ELSE saved(deleted.files, migration_result.cookie)

\* Mutant: nobody passes the admin check.
require_admin_nobody(cookie) == FALSE

\* require_admin, the before_request of the admin routes
require_admin(cookie) == Get(cookie, K.user_id, 0) # 0 /\ Get(cookie, K.is_admin, FALSE)

\* POST /admin/lessons/<subject>/<subtopic>/<lesson_id>/edit with a title, a
\* new id and no lesson type: the stored lesson's other fields are kept
admin_edit_lesson(cookie, files, subject, subtopic, lesson_id, new_lesson_id) ==
    LET lessons == get_lesson_plans(files, subject, subtopic, TRUE)
        At == LessonPositions(lessons, lesson_id)
        existing == IF At = {} THEN [id |-> lesson_id, type |-> T_remedial, status |-> NoText]
                    ELSE lessons[CHOOSE i \in At : \A j \in At : j <= i]
    IN update_lesson(cookie, files, subject, subtopic, lesson_id,
                     [existing EXCEPT !.id = new_lesson_id])

(***************************************************************************)
(* SpecProgress: calls made in several browser sessions                    *)
(***************************************************************************)
MaxProgCalls == 3

\* The browser sessions
Sessions == {1, 2}

\* The accounts that can log in, and those of them that are admins
Accounts == {1, 2}

AdminAccounts == {2}

\* The subject/subtopic pairs a call may name
ProgressPairs == {<<T_py, T_if>>, <<T_py, T_if_x>>, <<T_py, T_old>>, <<T_py, T_gone>>}

\* The pairs whose lessons are marked and listed, and those an edit may name
LessonPairs == {<<T_py, T_if>>, <<T_py, T_if_x>>}

EditPairs == {<<T_py, T_if>>, <<T_py, T_gone>>}

\* The lesson ids a call may name, and the new ids of an edit
LessonIds == {T_L1, T_L2, T_L3}

NewLessonIds == {T_L2, T_L3}

\* The payloads of the override request: without "enabled", or with it
OverridePayloads ==
    {[has_enabled |-> FALSE, enabled |-> FALSE], [has_enabled |-> TRUE, enabled |-> TRUE],
     [has_enabled |-> TRUE, enabled |-> FALSE]}

\* The lesson files at the start: py/if has an initial, a remedial and a
\* hidden lesson, py/if_x a lesson without a type and one for all
InitialLessonFiles ==
    (<<T_py, T_if>> :>
        << [id |-> T_L1, type |-> T_initial, status |-> NoText],
           [id |-> T_L2, type |-> <<"R">> \o Tail(T_remedial), status |-> NoText],
           [id |-> T_Intro, type |-> T_initial, status |-> T_draft] >>)
    @@ (<<T_py, T_if_x>> :>
        << [id |-> T_L1, type |-> NoText, status |-> NoText],
           [id |-> T_L2, type |-> <<" ">> \o T_all, status |-> NoText] >>)
    @@ (<<T_py, T_old>> :> << [id |-> T_L1, type |-> T_initial, status |-> NoText] >>)

NoArgs == [subject |-> NoText, subtopic |-> NoText, item_id |-> NoText, new_id |-> NoText]

NoProgCall ==
    [route |-> "none", sid |-> 0, args |-> NoArgs, override |-> FALSE, result |-> <<>>]

ProgInit ==
    /\ sessions = [s \in Sessions |-> <<>>]
    /\ lesson_progress = <<>>
    /\ lesson_files = InitialLessonFiles
    /\ prog_call = NoProgCall
    /\ prog_calls = 0

\* A call in session s: the new cookie, table and files, and what it returned;
\* override is the session's admin_override when the call was made
Called(s, route, args, cookie, db, files, result) ==
    /\ OnlyProg
    /\ prog_calls < MaxProgCalls
    /\ prog_calls' = prog_calls + 1
    /\ sessions' = [sessions EXCEPT ![s] = cookie]
    /\ lesson_progress' = db
    /\ lesson_files' = files
    /\ prog_call' = [route |-> route, sid |-> s, args |-> args,
                     override |-> Get(sessions[s], K.admin_override, FALSE),
                     result |-> result]

PairArgs(pair) == [NoArgs EXCEPT !.subject = pair[1], !.subtopic = pair[2]]

\* POST /login with valid credentials: nothing when already logged in
Login(s, user_id) ==
    Called(s, "login", NoArgs,
           IF Get(sessions[s], K.user_id, 0) # 0 THEN sessions[s]
           ELSE Put(Put(sessions[s], K.user_id, user_id),
                    K.is_admin, user_id \in AdminAccounts),
           lesson_progress, lesson_files, <<>>)

\* GET /logout: session.clear()
LogoutSession(s) == Called(s, "logout", NoArgs, <<>>, lesson_progress, lesson_files, <<>>)

MarkLessonComplete(s, pair, lesson_id) ==
    LET done == mark_lesson_complete(sessions[s], lesson_progress, pair[1], pair[2],
                                     lesson_id)
    IN Called(s, "mark_lesson_complete", [PairArgs(pair) EXCEPT !.item_id = lesson_id],
              done.cookie, done.db, lesson_files, TRUE)

MarkVideoComplete(s, pair, video_id) ==
    LET done == mark_video_complete(sessions[s], lesson_progress, pair[1], pair[2],
                                    video_id)
    IN Called(s, "mark_video_complete", [PairArgs(pair) EXCEPT !.item_id = video_id],
              done.cookie, done.db, lesson_files, TRUE)

GetCompletedLessons(s, pair) ==
    LET got == get_completed_lessons(sessions[s], lesson_progress, pair[1], pair[2])
    IN Called(s, "get_completed_lessons", PairArgs(pair), got.cookie, lesson_progress,
              lesson_files, got.completed)

\* POST /admin/toggle-override: sets the flag when the payload has "enabled",
\* else toggles it; other than admins are redirected
AdminToggleOverride(s, payload) ==
    Called(s, "toggle_override", NoArgs,
           IF ~require_admin(sessions[s]) THEN sessions[s]
           ELSE IF payload.has_enabled THEN set_admin_override(sessions[s], payload.enabled)
           ELSE toggle_admin_override(sessions[s]),
           lesson_progress, lesson_files, require_admin(sessions[s]))

CheckQuizPrerequisites(s, pair) ==
    LET checked == check_quiz_prerequisites(sessions[s], lesson_progress, lesson_files,
                                            pair[1], pair[2])
    IN Called(s, "check_quiz_prerequisites", PairArgs(pair), checked.cookie,
              lesson_progress, lesson_files, checked.result)

CheckSubtopicPrerequisites(s, pair) ==
    LET checked == check_subtopic_prerequisites(sessions[s], lesson_progress, lesson_files,
                                                pair[1], pair[2])
    IN Called(s, "check_subtopic_prerequisites", PairArgs(pair), checked.cookie,
              lesson_progress, lesson_files, checked.result)

\* The lesson edit of an admin; other than admins are redirected
AdminEditLesson(s, pair, lesson_id, new_lesson_id) ==
    LET edited == admin_edit_lesson(sessions[s], lesson_files, pair[1], pair[2],
                                    lesson_id, new_lesson_id)
        args == [PairArgs(pair) EXCEPT !.item_id = lesson_id, !.new_id = new_lesson_id]
    IN IF require_admin(sessions[s])
       THEN Called(s, "update_lesson", args, edited.cookie, lesson_progress, edited.files,
                   edited.result)
       ELSE Called(s, "update_lesson", args, sessions[s], lesson_progress, lesson_files,
                   UpdateFailed(sessions[s], lesson_files, "redirect").result)

ProgNext ==
    \/ \E s \in Sessions, user_id \in Accounts : Login(s, user_id)
    \/ \E s \in Sessions : LogoutSession(s)
    \/ \E s \in Sessions, pair \in LessonPairs, lesson_id \in LessonIds :
           MarkLessonComplete(s, pair, lesson_id)
    \/ \E s \in Sessions : MarkVideoComplete(s, <<T_py, T_if>>, T_v1)
    \/ \E s \in Sessions, pair \in LessonPairs : GetCompletedLessons(s, pair)
    \/ \E s \in Sessions, payload \in OverridePayloads : AdminToggleOverride(s, payload)
    \/ \E s \in Sessions, pair \in ProgressPairs : CheckQuizPrerequisites(s, pair)
    \/ \E s \in Sessions, pair \in ProgressPairs : CheckSubtopicPrerequisites(s, pair)
    \/ \E s \in Sessions, pair \in EditPairs, lesson_id \in LessonIds,
          new_lesson_id \in NewLessonIds :
           AdminEditLesson(s, pair, lesson_id, new_lesson_id)

ProgIdle ==
    /\ sessions = [s \in Sessions |-> <<>>]
    /\ lesson_progress = <<>>
    /\ lesson_files = InitialLessonFiles
    /\ prog_call = NoProgCall
    /\ prog_calls = 0

(***************************************************************************)
(* Teacher subject assignments and the authoring routes                    *)
(*                                                                         *)
(* The assignment store and its three admin routes are not part of the     *)
(* sources; they are modelled from the specification.  The quiz editor     *)
(* and the subject APIs are the handlers of the sources.                   *)
(***************************************************************************)
\* discover_subjects: the subject directories with a subject_info.json
discover_subjects == {T_py, T_js}

\* subject_config["subtopics"] of a subject, by id
ConfiguredSubtopics(subject) ==
    {subtopic \in {T_if, T_if_x, T_old, T_arr, T_new, T_gone} :
        SubtopicData(subject, subtopic).valid}

\* A response: status, the JSON success flag and the listed items
Response(status, success, body) == [status |-> status, success |-> success, body |-> body]

\* GET /admin/quiz/<subject>/<subtopic>, after require_admin
admin_quiz_editor(cookie, subject, subtopic) ==
    IF ~require_admin(cookie) THEN Response(302, FALSE, {})
    ELSE IF subject \notin discover_subjects THEN Response(404, FALSE, {})
    ELSE IF subtopic \notin ConfiguredSubtopics(subject) THEN Response(404, FALSE, {})
    ELSE Response(200, TRUE, {})

\* GET /api/subjects/<subject>/tags?source=allowed
api_get_subject_tags(cookie, subject) ==
    IF subject \notin discover_subjects THEN Response(404, FALSE, {})
    ELSE Response(200, TRUE, Range(SubjectAllowedTags(subject)))

\* GET /api/subjects/<subject>/subtopics: the active subtopics of the subject
api_get_subtopics(cookie, subject) ==
    IF subject \notin discover_subjects THEN Response(404, FALSE, {})
    ELSE Response(200, TRUE,
                  {subtopic \in ConfiguredSubtopics(subject) :
                      is_active_subtopic(SubtopicData(subject, subtopic))})

\* POST /admin/teacher-topic-assignments: the pair is assigned
assign_teacher_topic(store, teacher_id, subject) == store \cup {<<teacher_id, subject>>}

\* DELETE /admin/teacher-topic-assignments: the pair is no longer assigned
unassign_teacher_topic(store, teacher_id, subject) == store \ {<<teacher_id, subject>>}

(***************************************************************************)
(* SpecScope: the requests of one browser                                  *)
(***************************************************************************)
MaxScopeCalls == 4

\* The teachers and subjects an assignment may name (gone is no subject)
ScopeTeachers == Accounts \ AdminAccounts

ScopeSubjects == {T_py, T_js, T_gone}

ScopePairs == {<<T_py, T_if>>, <<T_py, T_old>>, <<T_js, T_arr>>, <<T_js, T_gone>>}

NoScopeReply ==
    [route |-> "none", teacher_id |-> 0, subject |-> NoText, subtopic |-> NoText,
     admin |-> FALSE, user_id |-> 0, status |-> 0, success |-> FALSE, body |-> {}]

\* The store is a file that outlives the server: it starts with any content
ScopeInit ==
    /\ topic_assignments \in SUBSET (ScopeTeachers \X ScopeSubjects)
    /\ scope_session = <<>>
    /\ scope_reply = NoScopeReply
    /\ scope_posted = {}
    /\ scope_calls = 0

\* A request of the browser: who made it, what it named and the response
Requested(route, teacher_id, subject, subtopic, reply) ==
    /\ OnlyScope
    /\ scope_calls < MaxScopeCalls
    /\ scope_calls' = scope_calls + 1
    /\ scope_reply' = [route |-> route, teacher_id |-> teacher_id, subject |-> subject,
                       subtopic |-> subtopic,
                       admin |-> Get(scope_session, K.is_admin, FALSE),
                       user_id |-> Get(scope_session, K.user_id, 0),
                       status |-> reply.status, success |-> reply.success,
                       body |-> reply.body]

\* POST /login, GET /logout
ScopeLogin(user_id) ==
    /\ Requested("login", 0, NoText, NoText, Response(302, FALSE, {}))
    /\ scope_session' =
           IF Get(scope_session, K.user_id, 0) # 0 THEN scope_session
           ELSE Put(Put(scope_session, K.user_id, user_id),
                    K.is_admin, user_id \in AdminAccounts)
    /\ UNCHANGED <<topic_assignments, scope_posted>>

ScopeLogout ==
    /\ Requested("logout", 0, NoText, NoText, Response(302, FALSE, {}))
    /\ scope_session' = <<>>
    /\ UNCHANGED <<topic_assignments, scope_posted>>

AssignTeacherTopic(teacher_id, subject) ==
    /\ IF require_admin(scope_session)
       THEN /\ Requested("assign", teacher_id, subject, NoText, Response(200, TRUE, {}))
            /\ topic_assignments' = assign_teacher_topic(topic_assignments, teacher_id, subject)
            /\ scope_posted' = scope_posted \cup {<<teacher_id, subject>>}
       ELSE /\ Requested("assign", teacher_id, subject, NoText, Response(302, FALSE, {}))
            /\ UNCHANGED <<topic_assignments, scope_posted>>
    /\ UNCHANGED scope_session

\* The specification states the response for an assigned pair only: for
\* another pair the request may succeed or be refused
UnassignTeacherTopic(teacher_id, subject, refused) ==
    /\ IF ~require_admin(scope_session)
       THEN /\ Requested("unassign", teacher_id, subject, NoText, Response(302, FALSE, {}))
            /\ UNCHANGED <<topic_assignments, scope_posted>>
       ELSE IF refused /\ <<teacher_id, subject>> \notin topic_assignments
       THEN /\ Requested("unassign", teacher_id, subject, NoText, Response(404, FALSE, {}))
            /\ UNCHANGED <<topic_assignments, scope_posted>>
       ELSE /\ Requested("unassign", teacher_id, subject, NoText, Response(200, TRUE, {}))
            /\ topic_assignments' =
                   unassign_teacher_topic(topic_assignments, teacher_id, subject)
            /\ scope_posted' = scope_posted \ {<<teacher_id, subject>>}
    /\ UNCHANGED scope_session

ListTeacherTopics ==
    /\ Requested("list", 0, NoText, NoText,
                 IF require_admin(scope_session) THEN Response(200, TRUE, topic_assignments)
                 ELSE Response(302, FALSE, {}))
    /\ UNCHANGED <<topic_assignments, scope_session, scope_posted>>

AdminQuizEditor(pair) ==
    /\ Requested("quiz_editor", 0, pair[1], pair[2],
                 admin_quiz_editor(scope_session, pair[1], pair[2]))
    /\ UNCHANGED <<topic_assignments, scope_session, scope_posted>>

ApiGetSubjectTags(subject) ==
    /\ Requested("subject_tags", 0, subject, NoText,
                 api_get_subject_tags(scope_session, subject))
    /\ UNCHANGED <<topic_assignments, scope_session, scope_posted>>

ApiGetSubtopics(subject) ==
    /\ Requested("subtopics", 0, subject, NoText, api_get_subtopics(scope_session, subject))
    /\ UNCHANGED <<topic_assignments, scope_session, scope_posted>>

ScopeNext ==
    \/ \E user_id \in Accounts : ScopeLogin(user_id)
    \/ ScopeLogout
    \/ \E teacher_id \in ScopeTeachers, subject \in ScopeSubjects :
           AssignTeacherTopic(teacher_id, subject)
    \/ \E teacher_id \in ScopeTeachers, subject \in ScopeSubjects, refused \in BOOLEAN :
           UnassignTeacherTopic(teacher_id, subject, refused)
    \/ ListTeacherTopics
    \/ \E pair \in ScopePairs : AdminQuizEditor(pair)
    \/ \E subject \in ScopeSubjects : ApiGetSubjectTags(subject)
    \/ \E subject \in ScopeSubjects : ApiGetSubtopics(subject)

ScopeIdle ==
    /\ topic_assignments = {}
    /\ scope_session = <<>>
    /\ scope_reply = NoScopeReply
    /\ scope_posted = {}
    /\ scope_calls = 0

(***************************************************************************)
(* POST /api/ai/code-analysis                                              *)
(*                                                                         *)
(* A submission is its code (the length and how much of its end is         *)
(* whitespace; code of whitespace only has no other character), the        *)
(* question reference and quiz of the session, the payload's               *)
(* allow_ai_analysis and whether the AI service returns an analysis.       *)
(***************************************************************************)
\* Mutant: the code is not stripped before it is priced.
rstrip_length_raw(submission) == submission.raw_len

\* len((payload.get("code") or "").rstrip())
rstrip_length(submission) == submission.raw_len - submission.trailing

\* spend_tokens: the outcome and the balances afterwards
spend_tokens(user_id, tokens) ==
    IF tokens <= 0 \/ get_user(user_id) = 0 \/ token_balance[user_id] < tokens
    THEN [success |-> FALSE, balances |-> token_balance]
    ELSE [success |-> TRUE,
          balances |-> [token_balance EXCEPT ![user_id] = token_balance[user_id] - tokens]]

CodeReply(status, cost, balances) ==
    [status |-> status, cost |-> cost, balances |-> balances]

\* analyze_code_submission.  The questions of a quiz session are sanitized
\* and never carry allow_ai_analysis, so a referenced question does not allow it
analyze_code_submission(sess, submission) ==
    LET stripped == rstrip_length(submission)
        index == submission.index
        allow_ai_analysis == IF submission.has_index THEN FALSE ELSE submission.allow
        cost == calculate_token_cost(stripped)
        spend_result == spend_tokens(sess.user_id, cost)
    IN IF sess.user_id = 0 \/ sess.role \notin {"student", "admin"}
       THEN CodeReply(401, 0, token_balance)
       ELSE IF stripped = 0 THEN CodeReply(400, 0, token_balance)
       ELSE IF submission.has_index /\ ~submission.has_current
       THEN CodeReply(400, 0, token_balance)
       ELSE IF submission.has_index /\ (index < 0 \/ index >= submission.quiz_len)
       THEN CodeReply(400, 0, token_balance)
       ELSE IF ~allow_ai_analysis THEN CodeReply(403, 0, token_balance)
       ELSE IF cost <= 0 THEN CodeReply(400, 0, token_balance)
       ELSE IF sess.role # "admin" /\ get_user(sess.user_id) = 0
       THEN CodeReply(404, cost, token_balance)
       ELSE IF sess.role # "admin" /\ token_balance[sess.user_id] < cost
       THEN CodeReply(402, cost, token_balance)
       ELSE IF ~submission.ai THEN CodeReply(503, cost, token_balance)
       ELSE IF sess.role = "admin" THEN CodeReply(200, cost, token_balance)
       ELSE IF ~spend_result.success THEN CodeReply(400, cost, token_balance)
       ELSE CodeReply(200, cost, spend_result.balances)

(***************************************************************************)
(* SpecCode: code submissions of students, teachers and admins             *)
(***************************************************************************)
MaxCodeCalls == 2

\* A plain submission of one character, and the submissions derived from it
PlainSubmission ==
    [raw_len |-> 1, trailing |-> 0, has_index |-> FALSE, index |-> 0, has_current |-> FALSE,
     quiz_len |-> 0, allow |-> TRUE, ai |-> TRUE]

Submissions ==
    {PlainSubmission,
     [PlainSubmission EXCEPT !.raw_len = 3, !.trailing = 3],
     [PlainSubmission EXCEPT !.has_index = TRUE],
     [PlainSubmission EXCEPT !.has_index = TRUE, !.has_current = TRUE, !.quiz_len = 1,
                             !.index = 1],
     [PlainSubmission EXCEPT !.has_index = TRUE, !.has_current = TRUE, !.quiz_len = 1],
     [PlainSubmission EXCEPT !.allow = FALSE],
     [PlainSubmission EXCEPT !.raw_len = 3 * (TOKEN_CHARS_PER \div 2), !.trailing = 1],
     [PlainSubmission EXCEPT !.raw_len = 11 * TOKEN_CHARS_PER],
     [PlainSubmission EXCEPT !.ai = FALSE]}

\* The sessions a submission may come from: anonymous, a user in their
\* role, or a teacher who is an admin
CodeSessions ==
    {[user_id |-> 0, role |-> None]}
    \cup {[user_id |-> u, role |-> users[u]] : u \in {v \in UserIds : users[v] # None}}
    \cup {[user_id |-> u, role |-> "admin"] : u \in {v \in UserIds : users[v] = "teacher"}}

\* A student with any balance up to the start balance and a teacher
CodeInit ==
    /\ users = [u \in UserIds |->
                   IF u = 1 THEN "student" ELSE IF u = 2 THEN "teacher" ELSE None]
    /\ \E balance \in 0..(STUDENT_START_TOKENS + MaxDelta) :
           token_balance = [u \in UserIds |-> IF u = 1 THEN balance ELSE 0]
    /\ classes = [c \in ClassIds |-> 0]
    /\ registrations = {}
    /\ tok_call = [op |-> "none"]
    /\ tok_calls = 0

AnalyzeCodeSubmission(sess, submission) ==
    LET reply == analyze_code_submission(sess, submission)
    IN /\ OnlyTok
       /\ tok_calls < MaxCodeCalls
       /\ tok_calls' = tok_calls + 1
       /\ token_balance' = reply.balances
       /\ tok_call' = [op |-> "analyze_code_submission", user_id |-> sess.user_id,
                       role |-> sess.role, status |-> reply.status,
                       code_len |-> submission.raw_len - submission.trailing]
       /\ UNCHANGED <<users, classes, registrations>>

CodeNext == \E sess \in CodeSessions, submission \in Submissions :
                AnalyzeCodeSubmission(sess, submission)

(***************************************************************************)
(* SpecResume: a student comes back after an earlier session               *)
(*                                                                         *)
(* The earlier session of student 1 marked lessons complete and logged     *)
(* out: its rows are in the table and no session is logged in.             *)
(***************************************************************************)
EarlierProgress ==
    {<<ProgressRow(1, T_py, T_if, T_L1, "lesson", TRUE)>>,
     <<ProgressRow(1, T_py, T_if, T_L1, "lesson", TRUE),
       ProgressRow(1, T_py, T_if, T_L2, "lesson", TRUE)>>}

ResumeInit ==
    /\ sessions = [s \in Sessions |-> <<>>]
    /\ lesson_progress \in EarlierProgress
    /\ lesson_files = InitialLessonFiles
    /\ prog_call = NoProgCall
    /\ prog_calls = 0

ResumeNext ==
    \/ \E s \in Sessions, user_id \in Accounts : Login(s, user_id)
    \/ \E s \in Sessions : LogoutSession(s)
    \/ \E s \in Sessions, pair \in LessonPairs, lesson_id \in LessonIds :
           MarkLessonComplete(s, pair, lesson_id)
    \/ \E s \in Sessions, pair \in LessonPairs : GetCompletedLessons(s, pair)
    \/ \E s \in Sessions, pair \in ProgressPairs : CheckQuizPrerequisites(s, pair)

(***************************************************************************)
(* SpecLearn: a learner who is not logged in studies and opens quizzes     *)
(*                                                                         *)
(* The session has no user_id, so _persist_completion writes no row and    *)
(* the progress table stays empty.                                         *)
(***************************************************************************)
LearnLessonIds == {T_L1, T_L2}

\* POST /api/lesson-progress/mark-complete
LearnerMarksLesson(pair, lesson_id) ==
    LET done == mark_lesson_complete(session, lesson_progress, pair[1], pair[2], lesson_id)
    IN /\ done.db = lesson_progress
       /\ Request("mark_lesson_complete",
                  Reply([session |-> done.cookie, user_state |-> user_state], 200, <<>>))
       /\ UNCHANGED <<quiz_served, quiz_analysed>>

\* POST /api/video-progress/mark-complete
LearnerMarksVideo(pair, video_id) ==
    LET done == mark_video_complete(session, lesson_progress, pair[1], pair[2], video_id)
    IN /\ done.db = lesson_progress
       /\ Request("mark_video_complete",
                  Reply([session |-> done.cookie, user_state |-> user_state], 200, <<>>))
       /\ UNCHANGED <<quiz_served, quiz_analysed>>

LearnInit == QuizInit

LearnNext ==
    \/ \E pair \in LessonPairs, lesson_id \in LearnLessonIds :
           LearnerMarksLesson(pair, lesson_id)
    \/ \E pair \in LessonPairs : LearnerMarksVideo(pair, T_v1)
    \/ \E pair \in RequestPairs : QuizPage(pair)

(***************************************************************************)
(* SpecTagKey: normalize_tag_key on tag texts, and on the keys it returns  *)
(***************************************************************************)
MaxNormalizations == 2

T_Loops_2 == <<"L", "o", "o", "p", "s", "2">>

\* The text with sep put in after its first k characters
InsertAt(text, k, sep) == SubSeq(text, 1, k) \o sep \o SubSeq(text, k + 1, Len(text))

\* Tags as authors write them: a word, or a word with a separator, a space
\* or a capital somewhere in it
TagTexts ==
    UNION {{InsertAt(word, k, sep) :
                k \in 0..Len(word), sep \in {<<>>, <<"-">>, <<" ">>, <<"_">>, <<"S">>}} :
           word \in {T_comparsion, T_comparison, T_Loops_2, T_if}}

KeyInit ==
    /\ tag_text \in TagTexts
    /\ tag_keys = <<>>

\* normalize_tag_key of the tag, then of the key last returned
NormalizeTagKey ==
    /\ OnlyKey
    /\ Len(tag_keys) < MaxNormalizations
    /\ tag_keys' = Append(tag_keys,
                          normalize_tag_key(IF tag_keys = <<>> THEN tag_text
                                            ELSE tag_keys[Len(tag_keys)]))
    /\ UNCHANGED tag_text

KeyNext == NormalizeTagKey

KeyIdle ==
    /\ tag_text = <<>>
    /\ tag_keys = <<>>

(***************************************************************************)
(* Specifications                                                          *)
(***************************************************************************)
InitCost == CostInit /\ TokIdle /\ SelIdle /\ AnIdle /\ ResIdle /\ QuizIdle /\ ProgIdle /\ ScopeIdle /\ KeyIdle

SpecCost == InitCost /\ [][CostNext]_vars

InitTokens == TokInit /\ CostIdle /\ SelIdle /\ AnIdle /\ ResIdle /\ QuizIdle /\ ProgIdle /\ ScopeIdle /\ KeyIdle

SpecTokens == InitTokens /\ [][TokNext]_vars

InitSelect == SelInit /\ CostIdle /\ TokIdle /\ AnIdle /\ ResIdle /\ QuizIdle /\ ProgIdle /\ ScopeIdle /\ KeyIdle

SpecSelect == InitSelect /\ [][SelNext]_vars

InitAnalyze == AnInit /\ CostIdle /\ TokIdle /\ SelIdle /\ ResIdle /\ QuizIdle /\ ProgIdle /\ ScopeIdle /\ KeyIdle

SpecAnalyze == InitAnalyze /\ [][AnNext]_vars

InitResults == ResInit /\ CostIdle /\ TokIdle /\ SelIdle /\ AnIdle /\ QuizIdle /\ ProgIdle /\ ScopeIdle /\ KeyIdle

SpecResults == InitResults /\ [][ResNext]_vars

InitQuiz == QuizInit /\ CostIdle /\ TokIdle /\ SelIdle /\ AnIdle /\ ResIdle /\ ProgIdle /\ ScopeIdle /\ KeyIdle

SpecQuiz == InitQuiz /\ [][QuizNext]_vars

InitProgress == ProgInit /\ CostIdle /\ TokIdle /\ SelIdle /\ AnIdle /\ ResIdle /\ QuizIdle /\ ScopeIdle /\ KeyIdle

SpecProgress == InitProgress /\ [][ProgNext]_vars

InitScope == ScopeInit /\ CostIdle /\ TokIdle /\ SelIdle /\ AnIdle /\ ResIdle /\ QuizIdle /\ ProgIdle /\ KeyIdle

SpecScope == InitScope /\ [][ScopeNext]_vars

InitTagKey == KeyInit /\ CostIdle /\ TokIdle /\ SelIdle /\ AnIdle /\ ResIdle /\ QuizIdle /\ ProgIdle /\ ScopeIdle

SpecTagKey == InitTagKey /\ [][KeyNext]_vars

InitCode == CodeInit /\ CostIdle /\ SelIdle /\ AnIdle /\ ResIdle /\ QuizIdle /\ ProgIdle /\ ScopeIdle /\ KeyIdle

SpecCode == InitCode /\ [][CodeNext]_vars

InitResume == ResumeInit /\ CostIdle /\ TokIdle /\ SelIdle /\ AnIdle /\ ResIdle /\ QuizIdle /\ ScopeIdle /\ KeyIdle

SpecResume == InitResume /\ [][ResumeNext]_vars

InitLearn == LearnInit /\ CostIdle /\ TokIdle /\ SelIdle /\ AnIdle /\ ResIdle /\ ProgIdle /\ ScopeIdle /\ KeyIdle

SpecLearn == InitLearn /\ [][LearnNext]_vars

(***************************************************************************)
(* Claims                                                                  *)
(***************************************************************************)

\* C8: for a non-empty code string of length n the cost is n/250 rounded
\* half-up with a minimum of 1 (1..374 -> 1, 375..624 -> 2, 625 -> 3); the
\* cost of an empty string is 0.  Rounding half-up is stated without the
\* code's own expression: the cost c is the integer with
\* c - 1/2 <= n/250 < c + 1/2, raised to 1 when that integer is 0.
C8_TokenCostRoundsHalfUp ==
    token_cost # NoCost =>
        /\ (code_len = 0 => token_cost = 0)
        /\ (code_len \in 1..374 => token_cost = 1)
        /\ (code_len \in 375..624 => token_cost = 2)
        /\ (code_len = 625 => token_cost = 3)
        /\ (code_len >= 1 =>
                \E c \in 0..(MaxCodeLen + 1) :
                    /\ 2 * 250 * c - 250 <= 2 * code_len
                    /\ 2 * code_len < 2 * 250 * c + 250
                    /\ token_cost = Max(1, c))

C8_Witness == code_len = 625 /\ token_cost = 3

\* The student is registered in at least one class owned by the teacher (read
\* from the rows themselves, in the state before the call).
C9_RegisteredWith(teacher_id, student_id) ==
    /\ users[student_id] = "student"
    /\ student_id # teacher_id
    /\ \E c \in ClassIds : classes[c] = teacher_id /\ <<student_id, c>> \in registrations

\* C9: adjust_student_tokens(teacher, student, delta) for a student who is not
\* registered in a class owned by that teacher (or for the teacher's own id)
\* returns failure and leaves every balance unchanged; a successful call
\* changes no balance but that student's.
C9_TeacherAdjustsOwnStudentsOnly ==
    [][tok_call'.op = "adjust_student_tokens" =>
          LET t == tok_call'.teacher_id
              s == tok_call'.student_id
          IN /\ ~C9_RegisteredWith(t, s) =>
                    (~tok_call'.success /\ token_balance' = token_balance)
             /\ tok_call'.success =>
                    \A u \in UserIds \ {s} : token_balance'[u] = token_balance[u]]_vars

\* A teacher has raised the balance of a student of their class, and another
\* student's balance is still the starting balance.
C9_Witness ==
    /\ tok_call.op = "adjust_student_tokens"
    /\ tok_call.success
    /\ token_balance[tok_call.student_id] > STUDENT_START_TOKENS
    /\ \E u \in UserIds \ {tok_call.student_id} : users[u] = "student"

(***************************************************************************)
(* Claims about question selection (SpecSelect)                            *)
(***************************************************************************)
\* The pool's questions are pairwise distinct: no two share an identifier
\* (id, else question text, compared after strip and lower)
PoolDistinct == FirstOfKey(question_pool) = DOMAIN question_pool

C7_EmptyWhenAiUnavailable ==
    (sel_done /\ ~is_available(api_key)) => selected = <<>>

(***************************************************************************)
(* Claims about quiz analysis (SpecAnalyze)                                *)
(***************************************************************************)
\* C1: whenever the subject has a non-empty allowed-tag list, every tag that
\* analyze_quiz_performance reports as weak is a member of that list,
\* compared case-insensitively, whatever the questions, answers and LLM outcome.
C1_WeakTagsAreAllowed ==
    (an_done /\ allowed_tags # <<>>)
        => \A i \in DOMAIN analysis.weak_tags :
               str_lower(analysis.weak_tags[i]) \in AllowedKeys(allowed_tags)

(***************************************************************************)
(* Claims about the results page (SpecResults)                             *)
(***************************************************************************)
\* The position in the stored analysis of the first topic that strips to t, 0 if none
C3_PositionOf(t) ==
    LET at == {i \in DOMAIN res_analysis.weak_tags : str_strip(res_analysis.weak_tags[i]) = t}
    IN IF at = {} THEN 0 ELSE CHOOSE i \in at : \A j \in at : i <= j

\* C3: LESSON_PLANS never assigns the same lesson to two weak topics, each
\* weak topic appears at most once (case-insensitively), and the kept topics
\* are in the same relative order as in the stored analysis.
C3_LessonPlansDeduplicatedInOrder ==
    res_done =>
        \A i, j \in DOMAIN lesson_plan_map :
            i < j =>
                /\ lesson_plan_map[i].lesson # lesson_plan_map[j].lesson
                /\ lesson_key(lesson_plan_map[i].lesson) # lesson_key(lesson_plan_map[j].lesson)
                /\ str_lower(lesson_plan_map[i].topic) # str_lower(lesson_plan_map[j].topic)
                /\ 0 < C3_PositionOf(lesson_plan_map[i].topic)
                /\ C3_PositionOf(lesson_plan_map[i].topic) < C3_PositionOf(lesson_plan_map[j].topic)

\* C3 witness: of three weak topics, the first two matched the same remedial
\* lesson and the map kept the first and the third.
C3_Witness ==
    /\ res_done
    /\ res_analysis.weak_tags = <<T_Loops_padded, T_for_loops, T_else>>
    /\ Len(lesson_plan_map) = 2
    /\ lesson_plan_map[1].topic = str_strip(T_Loops_padded)
    /\ lesson_plan_map[1].lesson.id = T_L1
    /\ lesson_plan_map[2].topic = T_else

(***************************************************************************)
(* Claims about the quiz flow (SpecQuiz)                                   *)
(***************************************************************************)
\* The questions of the pool as the session stores them
C5_StoredPool(pair) ==
    Range(sanitize_questions_for_session(SubtopicData(pair[1], pair[2]).pool,
                                         Len(SubtopicData(pair[1], pair[2]).pool)))

\* C5: every question generate_remedial_quiz returns is a question of the
\* current pair's pool, and every remedial question stored by the route is
\* the stored form of a question of the pool of the pair it is stored for.
C5_RemedialQuestionsComeFromPool ==
    /\ (response.route = "generate_remedial_quiz" /\ response.status = 200)
           => Range(response.returned)
                  \subseteq Range(SubtopicData(response.pair[1], response.pair[2]).pool)
    /\ \A pair \in RequestPairs :
           Range(Get(user_state,
                     <<"remedial_questions",
                       get_session_key(pair[1], pair[2], K.remedial_questions)>>, <<>>))
               \subseteq C5_StoredPool(pair)

\* C5 witness: a remedial quiz of all three pool questions was generated
\* and stored, one of them a question without an id.
C5_Witness ==
    /\ response.route = "generate_remedial_quiz"
    /\ response.status = 200
    /\ Len(response.returned) = 3
    /\ \E i \in DOMAIN response.returned : response.returned[i].id = NoText
    /\ Len(Get(user_state,
               <<"remedial_questions",
                 get_session_key(response.pair[1], response.pair[2], K.remedial_questions)>>,
               <<>>)) = 3

\* The remedial questions the server-side bucket holds
C6_RemedialStore ==
    [ck \in {x \in DOMAIN user_state : x[1] = "remedial_questions"} |-> user_state[ck]]

C4_OverrideBypassesPrerequisites ==
    prog_call.override =>
        /\ prog_call.route = "check_quiz_prerequisites" => prog_call.result.can_take_quiz
        /\ ( /\ prog_call.route = "check_subtopic_prerequisites"
             /\ is_active_subtopic(SubtopicData(prog_call.args.subject,
                                                prog_call.args.subtopic)) )
           => /\ prog_call.result.prerequisites_met
              /\ prog_call.result.can_access_subtopic

\* An admin session with the override on is granted py/if although two of
\* its prerequisite subtopics are missing, one of which does not exist.
C4_Witness ==
    /\ prog_call.route = "check_subtopic_prerequisites"
    /\ prog_call.override
    /\ prog_call.args.subtopic = T_if
    /\ prog_call.result.missing_prerequisite_ids = <<T_if_x, T_gone>>
    /\ prog_call.result.can_access_subtopic

\* The completed lessons a session's cookie holds for the pair of the last call
C10_SessionCompleted(cookies, s) ==
    Range(Get(cookies[s],
              get_session_key(prog_call'.args.subject, prog_call'.args.subtopic,
                              K.completed_lessons),
              <<>>))

\* The students with a completed lesson row of that pair for a lesson id
C10_StoredFor(db, lesson_id) ==
    {db[i].student_id : i \in {j \in DOMAIN db :
        db[j] = ProgressRow(db[j].student_id, prog_call'.args.subject,
                            prog_call'.args.subtopic, lesson_id, "lesson", TRUE)}}

\* C10: an update_lesson that changes a lesson's id from old to new leaves
\* every session that held old among its completed lessons of the pair with
\* new and without old, and every student with a completed row for old with
\* a completed row for new and none for old.
C10_AllProgressMigrated ==
    [][ ( /\ prog_call'.route = "update_lesson"
          /\ prog_call'.result.success
          /\ prog_call'.result.id_changed )
        => /\ \A s \in Sessions :
                prog_call'.args.item_id \in C10_SessionCompleted(sessions, s)
                => /\ prog_call'.args.new_id \in C10_SessionCompleted(sessions', s)
                   /\ prog_call'.args.item_id \notin C10_SessionCompleted(sessions', s)
           /\ C10_StoredFor(lesson_progress, prog_call'.args.item_id)
                  \subseteq C10_StoredFor(lesson_progress', prog_call'.args.new_id)
           /\ C10_StoredFor(lesson_progress', prog_call'.args.item_id) = {} ]_vars

\* The last request came from a logged-in teacher who is no admin and has
\* been assigned a subject
C11_ScopedTeacher ==
    /\ scope_reply.user_id \in ScopeTeachers
    /\ ~scope_reply.admin
    /\ \E subject \in ScopeSubjects : <<scope_reply.user_id, subject>> \in topic_assignments

\* C11: a scoped teacher is served the quiz editor (200) for a configured
\* subtopic of an assigned subject and refused (403) for a subject outside
\* the assignment.
C11_QuizEditorScopedToAssignment ==
    (scope_reply.route = "quiz_editor" /\ C11_ScopedTeacher)
    => /\ ( /\ <<scope_reply.user_id, scope_reply.subject>> \in topic_assignments
            /\ scope_reply.subtopic \in ConfiguredSubtopics(scope_reply.subject) )
          => scope_reply.status = 200
       /\ <<scope_reply.user_id, scope_reply.subject>> \notin topic_assignments
          => scope_reply.status = 403

\* C12: for a scoped teacher the tags of a subject are served (200) when the
\* subject is assigned and refused (403) when it is not, and the subtopics
\* API lists subtopics of assigned subjects only.
C12_SubjectApisScopedToAssignment ==
    C11_ScopedTeacher
    => /\ scope_reply.route = "subject_tags"
          => IF <<scope_reply.user_id, scope_reply.subject>> \in topic_assignments
             THEN scope_reply.subject \in discover_subjects => scope_reply.status = 200
             ELSE scope_reply.status = 403
       /\ (scope_reply.route = "subtopics" /\ scope_reply.body # {})
          => <<scope_reply.user_id, scope_reply.subject>> \in topic_assignments

C14_BalancesNeverNegative ==
    \A u \in UserIds : token_balance[u] \in Nat

\* A user without tokens was adjusted by a negative amount and stays at zero.
C14_Witness ==
    /\ tok_call.op = "adjust_token_balance"
    /\ tok_call.success
    /\ tok_call.delta < 0
    /\ users[tok_call.user_id] # None
    /\ token_balance[tok_call.user_id] = 0

\* C15: a code-analysis request changes a balance only when it returns
\* success for a student, whose balance it lowers by exactly
\* calculate_token_cost of the stripped code; a rejected request and a
\* request of an admin session leave every balance unchanged.
C15_DebitOnlyOnSuccess ==
    [][ (tok_call'.op = "analyze_code_submission" /\ tok_calls' = tok_calls + 1)
        => IF tok_call'.status = 200 /\ tok_call'.role # "admin"
           THEN token_balance' =
                    [token_balance EXCEPT
                        ![tok_call'.user_id] = @ - calculate_token_cost(tok_call'.code_len)]
           ELSE token_balance' = token_balance ]_vars

\* A student's submission whose trailing whitespace would have cost one
\* token more succeeded and cost one token.
C15_Witness ==
    /\ tok_call.op = "analyze_code_submission"
    /\ tok_call.status = 200
    /\ tok_call.role = "student"
    /\ tok_call.code_len = 3 * (TOKEN_CHARS_PER \div 2) - 1
    /\ tok_calls = 1
    /\ token_balance[1] = STUDENT_START_TOKENS - 1

\* C16: get_completed_lessons of a logged-in student reports every lesson
\* of the subtopic that the student marked complete, in this session or in
\* an earlier one (the lessons with a completed row of the student).
C16_CompletedLessonsSurviveLogin ==
    (prog_call.route = "get_completed_lessons"
        /\ Get(sessions[prog_call.sid], K.user_id, 0) # 0)
    => \A i \in DOMAIN lesson_progress :
           LET row == lesson_progress[i]
           IN row = ProgressRow(Get(sessions[prog_call.sid], K.user_id, 0),
                                prog_call.args.subject, prog_call.args.subtopic,
                                row.item_id, "lesson", TRUE)
              => row.item_id \in Range(prog_call.result)

\* C17: on every store the quiz routes reach, clear_session_data(subject,
\* subtopic) leaves every session key and every server-side state entry
\* of each other (subject, subtopic) pair as it was, also of a pair whose
\* subtopic id begins with the same characters.
C17_ClearKeepsOtherPairs ==
    \A p \in RequestPairs :
        LET after == clear_session_data(Store, p[1], p[2])
        IN \A q \in RequestPairs \ {p} :
               \A f \in DOMAIN K :
                   LET key == get_session_key(q[1], q[2], K[f])
                   IN /\ key \in DOMAIN session
                         => (key \in DOMAIN after.session
                                /\ after.session[key] = session[key])
                      /\ \A category \in StateCategories :
                            <<category, key>> \in DOMAIN user_state
                            => /\ <<category, key>> \in DOMAIN after.user_state
                               /\ after.user_state[<<category, key>>]
                                      = user_state[<<category, key>>]

C20_RequiredLessons(subject, subtopic) ==
    LET listed == get_lesson_plans(lesson_files, subject, subtopic, FALSE)
    IN {listed[i].id : i \in {j \in DOMAIN listed :
                                 str_lower(str_strip(listed[j].type))
                                     \in {T_initial, T_all, NoText}}}

C21_FallbackUsed ==
    /\ sel_done
    /\ question_pool # <<>>
    /\ target_tags # <<>>
    /\ (~api_key \/ llm_reply.kind = "error")

\* The question shares a tag with the target tags (tags compared stripped
\* and in lower case, blank tags ignored)
C21_SharesTargetTag(q) ==
    \E i \in DOMAIN q.tags, j \in DOMAIN target_tags :
        /\ str_strip(q.tags[i]) # NoText
        /\ str_lower(str_strip(q.tags[i])) = str_lower(str_strip(target_tags[j]))

\* No two returned questions have the same identifier, compared
\* case-insensitively
C21_NoRepeatedIdentifier ==
    \A i, j \in DOMAIN selected :
        i # j => str_lower(Identifier(selected[i])) # str_lower(Identifier(selected[j]))

\* C21 as stated: the fallback returns no identifier twice, and returns a
\* question sharing no target tag only if every pool question sharing a
\* target tag is returned too.
C21_MatchingQuestionsFirst ==
    C21_FallbackUsed
    => /\ C21_NoRepeatedIdentifier
       /\ \A i \in DOMAIN selected :
              ~C21_SharesTargetTag(selected[i])
              => \A j \in DOMAIN question_pool :
                     C21_SharesTargetTag(question_pool[j])
                     => question_pool[j] \in Range(selected)

(***************************************************************************)
(* Claims about tag keys (SpecTagKey)                                      *)
(***************************************************************************)
\* C22: normalize_tag_key returns only lower-case letters and digits and is
\* idempotent: normalising a key it returned gives the same key.
C22_NormalizeTagKeyIdempotent ==
    /\ \A i \in DOMAIN tag_keys : Range(tag_keys[i]) \subseteq Alnum
    /\ \A i \in DOMAIN tag_keys : i > 1 => tag_keys[i] = tag_keys[i - 1]

====
